---- MODULE Spec2Model ----
(***************************************************************************)
(* Model of the retro-game-manager catalogue core:                         *)
(*   src/src/xml.rs   parse_games_from_file, extract_game_xml_by_index,    *)
(*                    infer_platform_from_filename                         *)
(*   src/src/main.rs  load_index, filter_results                           *)
(* Strings are sequences of one-character strings; Option<T> is the empty  *)
(* tuple (None) or a one-element tuple (Some).                             *)
(***************************************************************************)
EXTENDS Integers, Sequences, FiniteSets, TLC

\* ------------------------------------------------------------------ bounds
MaxGames == 2
MaxChildren == 1
MaxElements == 3
MaxRuns == 2
MaxTarget == 2
MaxFiles == 2
MaxIndex == 2
MaxAdds == 3
MaxFrames == 4

\* ------------------------------------------------------------- Option<T>
None == <<>>
Some(v) == <<v>>
IsSome(o) == o # <<>>
Unwrap(o) == o[1]
\* Option::or : the first operand when it is Some, else the second
OrOpt(a, b) == IF IsSome(a) THEN a ELSE b

\* ---------------------------------------------------------------- strings
sEU == <<"E", "U">>
sUS == <<"U", "S">>
sJP == <<"J", "P">>
sKR == <<"K", "R">>
sEn == <<"e", "n">>
sJa == <<"j", "a">>
sA == <<"A">>
sB == <<"B">>
sArc == <<"a", "r", "c">>
\* an attribute value with an unknown entity reference, which
\* decode_and_unescape_value rejects
sBad == <<"&", "x", ";">>

\* Attribute::decode_and_unescape_value : Ok(value) as Some, Err as None
DecodeAndUnescapeValue(raw) == IF raw = sBad THEN None ELSE Some(raw)

\* ----------------------------------------------------------------- events
\* One event of the quick_xml reader.  name / region / languages are the
\* attributes of a Start or Empty event: None when the attribute is absent,
\* Some(raw) when it is present.  Text, CData and Comment events keep their
\* content in tag.
Ev(ty, tag, n, r, l) ==
    [type |-> ty, tag |-> tag, name |-> n, region |-> r, languages |-> l]
StartEv(tag, n, r, l) == Ev("Start", tag, n, r, l)
EmptyEv(tag, n, r, l) == Ev("Empty", tag, n, r, l)
EndEv(tag) == Ev("End", tag, None, None, None)
TextEv == Ev("Text", "txt", None, None, None)
CDataEv == Ev("CData", "cdata", None, None, None)
CommentEv == Ev("Comment", "cmt", None, None, None)
EofEv == Ev("Eof", "", None, None, None)
ErrEv == Ev("Err", "", None, None, None)

\* ---------------------------------------------------------- parser (pure)
\* the locals of parse_games_from_file after lines 26-38
ParserInit ==
    [in_game |-> FALSE,
     current_game_name |-> None,
     current_archive_region |-> None,
     current_archive_languages |-> None,
     current_archive_name |-> None,
     current_game_region |-> None,
     current_game_languages |-> None,
     current_details_region |-> None,
     game_idx_counter |-> 0,
     results |-> <<>>]

\* <game> start tag: a holder is assigned only when its attribute is present
\* (to None when the value does not decode); the archive and details holders
\* are reset
GameStart(s, e) ==
    [s EXCEPT !.in_game = TRUE,
              !.current_game_name =
                  IF IsSome(e.name) THEN DecodeAndUnescapeValue(Unwrap(e.name)) ELSE @,
              !.current_game_region =
                  IF IsSome(e.region) THEN DecodeAndUnescapeValue(Unwrap(e.region)) ELSE @,
              !.current_game_languages =
                  IF IsSome(e.languages) THEN DecodeAndUnescapeValue(Unwrap(e.languages)) ELSE @,
              !.current_archive_region = None,
              !.current_archive_languages = None,
              !.current_archive_name = None,
              !.current_details_region = None]

\* map(into_owned).unwrap_or_default() : the empty string when decoding fails
DecodeOrDefault(raw) ==
    IF IsSome(DecodeAndUnescapeValue(raw)) THEN Unwrap(DecodeAndUnescapeValue(raw)) ELSE <<>>

\* <archive> (start or empty form) inside a game
ArchiveAttrs(s, e) ==
    [s EXCEPT !.current_archive_region =
                  IF IsSome(e.region) THEN Some(DecodeOrDefault(Unwrap(e.region))) ELSE @,
              !.current_archive_languages =
                  IF IsSome(e.languages) THEN Some(DecodeOrDefault(Unwrap(e.languages))) ELSE @,
              !.current_archive_name =
                  IF IsSome(e.name) THEN Some(DecodeOrDefault(Unwrap(e.name))) ELSE @]

\* <details> (start or empty form) inside a game
DetailsAttrs(s, e) ==
    IF s.current_archive_region = None /\ s.current_game_region = None
    THEN [s EXCEPT !.current_details_region =
                  IF IsSome(e.region) THEN DecodeAndUnescapeValue(Unwrap(e.region)) ELSE @]
    ELSE s

\* Ok(Event::Start(e)) arm
OnStart(s, e) ==
    IF e.tag = "game" THEN GameStart(s, e)
    ELSE IF e.tag = "archive" /\ s.in_game THEN ArchiveAttrs(s, e)
    ELSE IF e.tag = "details" /\ s.in_game THEN DetailsAttrs(s, e)
    ELSE s

\* Ok(Event::Empty(e)) arm: no case for <game/>
OnEmpty(s, e) ==
    IF e.tag = "archive" /\ s.in_game THEN ArchiveAttrs(s, e)
    ELSE IF e.tag = "details" /\ s.in_game THEN DetailsAttrs(s, e)
    ELSE s

\* the GameEntry pushed at </game>
MakeEntry(s, plat, path) ==
    [platform |-> plat,
     name |-> Unwrap(s.current_game_name),
     archive_name |-> s.current_archive_name,
     region |-> OrOpt(s.current_archive_region,
                      OrOpt(s.current_game_region, s.current_details_region)),
     languages |-> OrOpt(s.current_archive_languages, s.current_game_languages),
     file_path |-> path,
     game_idx |-> s.game_idx_counter]

\* OnEnd with the counter advanced at every </game>, named or not
OnEnd_CountsEveryGame(s, e, plat, path) ==
    IF e.tag = "game"
    THEN IF IsSome(s.current_game_name)
         THEN [s EXCEPT !.results = Append(@, MakeEntry(s, plat, path)),
                        !.game_idx_counter = @ + 1,
                        !.current_game_name = None,
                        !.current_archive_region = None,
                        !.current_game_region = None,
                        !.current_details_region = None,
                        !.current_archive_languages = None,
                        !.current_game_languages = None,
                        !.current_archive_name = None,
                        !.in_game = FALSE]
         ELSE [s EXCEPT !.in_game = FALSE, !.game_idx_counter = @ + 1]
    ELSE s

\* Ok(Event::End(e)) arm.  The arguments of Option::or are evaluated before
\* the call, so every take() runs when a name was captured; without a name
\* no holder is taken.
OnEnd(s, e, plat, path) ==
    IF e.tag = "game"
    THEN IF IsSome(s.current_game_name)
         THEN [s EXCEPT !.results = Append(@, MakeEntry(s, plat, path)),
                        !.game_idx_counter = @ + 1,
                        !.current_game_name = None,
                        !.current_archive_region = None,
                        !.current_game_region = None,
                        !.current_details_region = None,
                        !.current_archive_languages = None,
                        !.current_game_languages = None,
                        !.current_archive_name = None,
                        !.in_game = FALSE]
         ELSE [s EXCEPT !.in_game = FALSE]
    ELSE s

\* one iteration of the loop for an event that is neither Eof nor Err
ParseEvent(s, e, plat, path) ==
    CASE e.type = "Start" -> OnStart(s, e)
      [] e.type = "Empty" -> OnEmpty(s, e)
      [] e.type = "End" -> OnEnd(s, e, plat, path)
      [] OTHER -> s

\* the fold of the loop over a whole event stream (used by load_index)
RECURSIVE ParseFold(_, _, _, _, _)
ParseFold(s, events, i, plat, path) ==
    IF i > Len(events) THEN s
    ELSE ParseFold(ParseEvent(s, events[i], plat, path), events, i + 1, plat, path)

\* -------------------------------------------------------------- platform
\* first index at which the two characters " (" occur in str, 0 when none
RECURSIVE FindSpaceParen(_, _)
FindSpaceParen(str, i) ==
    IF i + 1 > Len(str) THEN 0
    ELSE IF str[i] = " " /\ str[i + 1] = "(" THEN i
    ELSE FindSpaceParen(str, i + 1)

\* InferPlatformFromFilename with the stem cut at the last " ("
InferPlatformFromFilename_LastParen(path) ==
    IF path.stem = None THEN None
    ELSE LET fname == Unwrap(path.stem)
             ks == {k \in 1..(Len(fname) - 1) : fname[k] = " " /\ fname[k + 1] = "("}
         IN Some(IF ks = {} THEN fname
                 ELSE SubSeq(fname, 1, (CHOOSE k \in ks : \A k2 \in ks : k2 <= k) - 1))

\* fname.split(" (").next()
InferPlatformFromFilename(path) ==
    IF path.stem = None THEN None
    ELSE LET fname == Unwrap(path.stem)
             k == FindSpaceParen(fname, 1)
         IN Some(IF k = 0 THEN fname ELSE SubSeq(fname, 1, k - 1))

sUnknown == <<"U", "n", "k", "n", "o", "w", "n">>
\* line 20: unwrap_or_else(|| "Unknown")
PlatformOf(path) ==
    IF IsSome(InferPlatformFromFilename(path))
    THEN Unwrap(InferPlatformFromFilename(path)) ELSE sUnknown

\* ------------------------------------------------------- extractor (pure)
\* the locals of extract_game_xml_by_index after lines 192-198; stopped is
\* TRUE once the loop has been left by a break
ExtractInit ==
    [idx |-> 0, capturing |-> FALSE, depth |-> 0, output |-> <<>>, stopped |-> FALSE]

\* AtTarget with the comparison off by one
AtTarget_OffByOne(x, target_idx) == x.idx + 1 = target_idx

\* the <game> test of the Start and Empty arms
AtTarget(x, target_idx) == x.idx = target_idx

ExtractOnStart(x, e, target_idx) ==
    IF e.tag = "game"
    THEN IF AtTarget(x, target_idx)
         THEN [x EXCEPT !.capturing = TRUE, !.depth = 1, !.output = Append(@, e)]
         ELSE [x EXCEPT !.idx = @ + 1]
    ELSE IF x.capturing
         THEN [x EXCEPT !.depth = @ + 1, !.output = Append(@, e)]
         ELSE x

ExtractOnEmpty(x, e, target_idx) ==
    IF e.tag = "game"
    THEN IF AtTarget(x, target_idx)
         THEN [x EXCEPT !.output = Append(@, e), !.stopped = TRUE]
         ELSE [x EXCEPT !.idx = @ + 1]
    ELSE IF x.capturing
         THEN [x EXCEPT !.output = Append(@, e)]
         ELSE x

\* Text, CData and Comment arms
ExtractOnContent(x, e) ==
    IF x.capturing THEN [x EXCEPT !.output = Append(@, e)] ELSE x

ExtractOnEnd(x, e) ==
    IF x.capturing
    THEN [x EXCEPT !.output = Append(@, e),
                   !.depth = @ - 1,
                   !.stopped = (x.depth - 1 = 0)]
    ELSE x

\* ExtractEvent with the captured output dropped when the reader fails
ExtractEvent_ErrDropsOutput(x, e, target_idx) ==
    CASE e.type = "Start" -> ExtractOnStart(x, e, target_idx)
      [] e.type = "Empty" -> ExtractOnEmpty(x, e, target_idx)
      [] e.type \in {"Text", "CData", "Comment"} -> ExtractOnContent(x, e)
      [] e.type = "End" -> ExtractOnEnd(x, e)
      [] e.type = "Eof" -> [x EXCEPT !.stopped = TRUE]
      [] e.type = "Err" -> [x EXCEPT !.stopped = TRUE, !.output = <<>>]
      [] OTHER -> x

\* one iteration of the loop; Eof and Err both break
ExtractEvent(x, e, target_idx) ==
    CASE e.type = "Start" -> ExtractOnStart(x, e, target_idx)
      [] e.type = "Empty" -> ExtractOnEmpty(x, e, target_idx)
      [] e.type \in {"Text", "CData", "Comment"} -> ExtractOnContent(x, e)
      [] e.type = "End" -> ExtractOnEnd(x, e)
      [] e.type \in {"Eof", "Err"} -> [x EXCEPT !.stopped = TRUE]
      [] OTHER -> x

\* ------------------------------------------------------------------ files
\* A file: its path, whether it can be opened, the events its reader
\* yields, and whether the reader reports an error (err) or the end of the
\* file after the last of them.
File(path, openable, events, err) ==
    [path |-> path, openable |-> openable, events |-> events, err |-> err]

\* reader.read_event_into at position pos (1-based).  The parser's reader
\* trims text and the extractor's does not; both treat a Text event alike
\* whatever its content, so one stream serves both.
ReadEvent(f, pos) ==
    IF pos <= Len(f.events) THEN f.events[pos]
    ELSE IF f.err THEN ErrEv ELSE EofEv

\* a Result: Ok(value) or Err
Ok(v) == [ok |-> TRUE, value |-> v]
Err == [ok |-> FALSE, value |-> <<>>]

\* the loop of extract_game_xml_by_index from position pos
RECURSIVE ExtractLoop(_, _, _, _)
ExtractLoop(x, f, pos, target_idx) ==
    IF x.stopped THEN x
    ELSE ExtractLoop(ExtractEvent(x, ReadEvent(f, pos), target_idx), f, pos + 1, target_idx)

\* lines 260-261
ExtractReturn(x) == Ok(x.output)

ExtractGameXmlByIndex(f, target_idx) ==
    IF ~f.openable THEN Err
    ELSE ExtractReturn(ExtractLoop(ExtractInit, f, 1, target_idx))

\* ------------------------------------------------------- bounded documents
RECURSIVE Flatten(_)
Flatten(ss) == IF ss = <<>> THEN <<>> ELSE Head(ss) \o Flatten(Tail(ss))

\* A family of documents: the <game> start tags gs, the self-closing
\* <game/> tags ge and the children ch a <game> may contain (each child is
\* the events of one element or one content event).
Family(gs, ge, ch) == [gs |-> gs, ge |-> ge, ch |-> ch]

Game(n, r, l) == StartEv("game", n, r, l)
Archive(n, r, l) == <<EmptyEv("archive", n, r, l)>>
Details(r) == <<EmptyEv("details", None, r, None)>>

\* region family: region attributes at the three levels, nameless games
RegionFamily ==
    Family({Game(None, Some(sEU), None), Game(Some(sA), None, None),
            Game(Some(sB), Some(sEU), None)},
           {},
           {Archive(None, Some(sUS), None), Archive(None, None, None),
            Details(Some(sJP)),
            <<StartEv("details", None, Some(sKR), None), EndEv("details")>>})
\* languages family: languages and archive names, nameless games
LangFamily ==
    Family({Game(None, None, Some(sEn)), Game(Some(sA), None, None),
            Game(Some(sB), Some(sEU), Some(sEn))},
           {},
           {Archive(Some(sArc), Some(sUS), Some(sJa)), Archive(None, None, None),
            Archive(None, None, Some(sJa)),
            <<StartEv("archive", Some(sArc), None, None), TextEv, EndEv("archive")>>})
\* structure family: nameless, undecodable, self-closing and nested games,
\* content events and nested elements
StructFamily ==
    Family({Game(None, None, None), Game(Some(sA), None, None),
            Game(Some(sBad), None, None)},
           {EmptyEv("game", None, None, None)},
           {<<CommentEv>>,
            <<StartEv("rom", None, None, None), TextEv, CDataEv,
              EmptyEv("crc", None, None, None), EndEv("rom")>>,
            <<Game(Some(sB), None, None), EndEv("game")>>,
            <<EmptyEv("game", Some(sB), None, None)>>})
\* self-closing family: named games in open/close and in self-closing form
SelfClosingFamily ==
    Family({Game(Some(sA), None, None)},
           {EmptyEv("game", Some(sB), Some(sEU), Some(sEn))},
           {})
\* sibling family: several <details> or several <archive> elements in one
\* game, a later one with or without the attributes of an earlier one
SiblingFamily ==
    Family({Game(Some(sA), None, None)},
           {},
           {Details(Some(sJP)) \o Details(Some(sKR)),
            Details(None) \o Details(Some(sKR)),
            Archive(Some(sArc), Some(sUS), Some(sJa)) \o Archive(None, None, None),
            Archive(Some(sArc), Some(sUS), Some(sJa)) \o Archive(Some(sB), Some(sEU), Some(sEn)),
            Archive(None, None, None) \o Archive(Some(sB), Some(sEU), None)})

Families == {RegionFamily, LangFamily, StructFamily, SelfClosingFamily, SiblingFamily}

\* The events of a document: the top-level <game> tags gs in order, the
\* children cs in order, child j lying inside game slot[j]; the last <game>
\* is left unclosed when open.
DocEvents(gs, cs, slot, open) ==
    LET ChildrenOf(i) ==
            LET js == {j \in 1..Len(cs) : slot[j] = i}
                lo == CHOOSE j \in js : \A j2 \in js : j <= j2
            IN IF js = {} THEN <<>>
               ELSE Flatten([n \in 1..Cardinality(js) |-> cs[lo + n - 1]])
        ItemEvents(i) ==
            IF gs[i].type = "Empty" THEN <<gs[i]>>
            ELSE <<gs[i]>> \o ChildrenOf(i)
                 \o (IF open /\ i = Len(gs) THEN <<>> ELSE <<EndEv("game")>>)
    IN Flatten([i \in 1..Len(gs) |-> ItemEvents(i)])

sStem == <<"N", "E", "S", " ", "(", "U", ")">>
sXml == <<"x", "m", "l">>
Path(stem, ext) == [stem |-> stem, ext |-> ext]
ThePath == Path(Some(sStem), Some(sXml))

\* other file names: no " (" in the stem, a stem that starts with " (", two
\* occurrences of " (", a "(" that no space precedes
sNES == <<"N", "E", "S">>
sParenU == <<" ", "(", "U", ")">>
sTwoParens == <<"A", " ", "(", "B", ")", " ", "(", "U", ")">>
sNoSpace == <<"A", "(", "B", ")">>
OtherPaths == {Path(Some(sNES), Some(sXml)), Path(Some(sParenU), Some(sXml)),
               Path(Some(sTwoParens), Some(sXml)), Path(Some(sNoSpace), Some(sXml))}
\* a path without a file name (such as ".."), which has no stem
NoStemPath == Path(None, None)

\* The files: at most MaxGames top-level <game> elements of one family with
\* at most MaxChildren children among them, MaxElements in all; read to the
\* end of the file, or
\* ended by a reader error after the last element or before its end tag; or
\* a file that cannot be opened; or a file of another name with at most
\* MaxGames named games; or a path without a stem, which cannot be opened.
IsFile(f) ==
    \/ \E fam \in Families : \E k \in 0..MaxGames : \E gs \in [1..k -> fam.gs \cup fam.ge] :
       \E m \in 0..MaxChildren : \E cs \in [1..m -> fam.ch] : \E slot \in [1..m -> 1..k] :
          /\ k + m <= MaxElements
          /\ \A j \in 1..m : gs[slot[j]].type = "Start"
          /\ \A j \in 1..(m - 1) : slot[j] <= slot[j + 1]
          /\ \/ f = File(ThePath, TRUE, DocEvents(gs, cs, slot, FALSE), FALSE)
             \/ f = File(ThePath, TRUE, DocEvents(gs, cs, slot, FALSE), TRUE)
             \/ /\ k > 0
                /\ gs[k].type = "Start"
                /\ f = File(ThePath, TRUE, DocEvents(gs, cs, slot, TRUE), TRUE)
    \/ f = File(ThePath, FALSE, <<>>, FALSE)
    \/ \E p \in OtherPaths : \E k \in 0..MaxGames :
          f = File(p, TRUE, Flatten([i \in 1..k |-> <<Game(Some(sA), None, None), EndEv("game")>>]),
                   FALSE)
    \/ f = File(NoStemPath, FALSE, <<>>, FALSE)

\* ------------------------------------------------------------------ state
VARIABLES
    file,          \* the file on disk, unchanged throughout
    pc,            \* "idle", or "loop" inside parse_games_from_file
    pos,           \* position of the reader
    platform,      \* the local platform of parse_games_from_file (line 20)
    in_game, current_game_name, current_archive_region,
    current_archive_languages, current_archive_name, current_game_region,
    current_game_languages, current_details_region, game_idx_counter,
    results,       \* the locals of parse_games_from_file
    returned,      \* the value returned by each completed parse call
    extracted,     \* None, or the last extract call: its target and result
    dir,           \* the xmldb directory: whether it exists, and its files
    lpc,           \* load_index: "start", "par" (parsing in parallel), "done"
    files,         \* the local files of load_index
    tasks,         \* per file of files: None, or Some(result of its parse)
    finished,      \* the tasks in the order in which they completed
    load_ret,      \* None, or Some(value returned by load_index)
    index,         \* the entry list of the application
    query, platform_filters, region_filter,
    language_filter,   \* the filter fields of the application
    filtered,      \* None, or Some(value returned by the last filter_results)
    threads,       \* the threads that call load_image_async on the loader
    img_calls,     \* the calls these threads make: platform, game name, image type
    cache,         \* ImageLoader.cache: cache key -> "Loading", "Loaded", "NotFound"
    img_pc,        \* per calling thread: "idle", "mark" or "url"
    img_req,       \* per calling thread: the arguments of its current call
    img_ret,       \* per calling thread: None, or Some(value it returned in this step)
    fetches,       \* the background threads whose request is under way
    spawned,       \* per cache key: the number of background threads spawned for it
    fetch_log,     \* None, or Some(key and outcome of the request that returned in this step)
    recent,        \* the list handed to add_recent
    added,         \* None, or the list before the first add_recent and the values added
    platforms, available_regions,
    available_languages,   \* the facet lists of the application
    recent_platforms, recent_regions,
    recent_languages,      \* the most recently used filter values
    recent_store,          \* the preferences as last handed to save
    default_vendors,       \* the vendor prefixes of the "common platforms" group
    show_platform_selector, show_preferences,
    selected_index, show_detail, detail_xml_cache,
    detail_tab,            \* the state of the detail window
    xml_of,        \* None, or Some(entry for which detail_xml_cache was extracted)
    shown,         \* None, or Some(what the detail window displayed in the last frame)
    frames         \* the number of frames drawn so far

locals == <<in_game, current_game_name, current_archive_region,
            current_archive_languages, current_archive_name, current_game_region,
            current_game_languages, current_details_region, game_idx_counter, results>>
parsevars == <<file, pc, pos, platform, locals, returned, extracted>>
loadvars == <<dir, lpc, files, tasks, finished, load_ret>>
filtervars == <<index, query, platform_filters, region_filter, language_filter, filtered>>
imagevars == <<threads, img_calls, cache, img_pc, img_req, img_ret, fetches, spawned, fetch_log>>
recentvars == <<recent, added>>
uivars == <<platforms, available_regions, available_languages, recent_platforms,
            recent_regions, recent_languages, recent_store, default_vendors,
            show_platform_selector, show_preferences, selected_index, show_detail, detail_xml_cache,
            detail_tab, xml_of, shown, frames>>
appvars == <<imagevars, recentvars, uivars>>
vars == <<parsevars, loadvars, filtervars, appvars>>

\* RecentFilters::default()
DefaultStore ==
    [platforms |-> <<>>, regions |-> <<>>, languages |-> <<>>,
     selected_platforms |-> <<>>, selected_region |-> None,
     selected_language |-> None, default_vendors |-> <<>>]

\* the loader, the recent list and the window before anything has used them
ImageIdle ==
    /\ threads = {}
    /\ img_calls = {}
    /\ cache = <<>>
    /\ img_pc = <<>>
    /\ img_req = <<>>
    /\ img_ret = <<>>
    /\ fetches = {}
    /\ spawned = <<>>
    /\ fetch_log = None

RecentIdle ==
    /\ recent = <<>>
    /\ added = None

UiIdle ==
    /\ platforms = <<>>
    /\ available_regions = <<>>
    /\ available_languages = <<>>
    /\ recent_platforms = <<>>
    /\ recent_regions = <<>>
    /\ recent_languages = <<>>
    /\ recent_store = DefaultStore
    /\ default_vendors = <<>>
    /\ show_platform_selector = FALSE
    /\ show_preferences = FALSE
    /\ selected_index = None
    /\ show_detail = FALSE
    /\ detail_xml_cache = None
    /\ detail_tab = "Info"
    /\ xml_of = None
    /\ shown = None
    /\ frames = 0

Locals ==
    [in_game |-> in_game,
     current_game_name |-> current_game_name,
     current_archive_region |-> current_archive_region,
     current_archive_languages |-> current_archive_languages,
     current_archive_name |-> current_archive_name,
     current_game_region |-> current_game_region,
     current_game_languages |-> current_game_languages,
     current_details_region |-> current_details_region,
     game_idx_counter |-> game_idx_counter,
     results |-> results]

SetLocals(s) ==
    /\ in_game' = s.in_game
    /\ current_game_name' = s.current_game_name
    /\ current_archive_region' = s.current_archive_region
    /\ current_archive_languages' = s.current_archive_languages
    /\ current_archive_name' = s.current_archive_name
    /\ current_game_region' = s.current_game_region
    /\ current_game_languages' = s.current_game_languages
    /\ current_details_region' = s.current_details_region
    /\ game_idx_counter' = s.game_idx_counter
    /\ results' = s.results

Init ==
    /\ IsFile(file)
    /\ pc = "idle"
    /\ pos = 1
    /\ platform = <<>>
    /\ in_game = FALSE
    /\ current_game_name = None
    /\ current_archive_region = None
    /\ current_archive_languages = None
    /\ current_archive_name = None
    /\ current_game_region = None
    /\ current_game_languages = None
    /\ current_details_region = None
    /\ game_idx_counter = 0
    /\ results = <<>>
    /\ returned = <<>>
    /\ extracted = None
    /\ dir = [exists |-> FALSE, entries |-> <<>>]
    /\ lpc = "start"
    /\ files = <<>>
    /\ tasks = <<>>
    /\ finished = <<>>
    /\ load_ret = None
    /\ index = <<>>
    /\ query = <<>>
    /\ platform_filters = <<>>
    /\ region_filter = <<>>
    /\ language_filter = <<>>
    /\ filtered = None
    /\ ImageIdle
    /\ RecentIdle
    /\ UiIdle

\* ------------------------------------------------- parse_games_from_file
\* ParseOpen with the index counter kept from the previous call
ParseOpen_KeepsCounter ==
    /\ pc = "idle"
    /\ extracted = None
    /\ Len(returned) < MaxRuns
    /\ platform' = PlatformOf(file.path)
    /\ IF file.openable
       THEN /\ SetLocals([ParserInit EXCEPT !.game_idx_counter = game_idx_counter])
            /\ pc' = "loop"
            /\ pos' = 1
            /\ UNCHANGED returned
       ELSE /\ returned' = Append(returned, Err)
            /\ UNCHANGED <<pc, pos, locals>>
    /\ UNCHANGED <<file, extracted, loadvars, filtervars, appvars>>

\* lines 20-38: infer the platform, open the file (an error returns at once)
\* and set the locals
ParseOpen ==
    /\ pc = "idle"
    /\ extracted = None
    /\ Len(returned) < MaxRuns
    /\ platform' = PlatformOf(file.path)
    /\ IF file.openable
       THEN /\ SetLocals(ParserInit)
            /\ pc' = "loop"
            /\ pos' = 1
            /\ UNCHANGED returned
       ELSE /\ returned' = Append(returned, Err)
            /\ UNCHANGED <<pc, pos, locals>>
    /\ UNCHANGED <<file, extracted, loadvars, filtervars, appvars>>

\* Ok(Event::Start(e)) arm
ParseStart ==
    /\ pc = "loop"
    /\ ReadEvent(file, pos).type = "Start"
    /\ SetLocals(OnStart(Locals, ReadEvent(file, pos)))
    /\ pos' = pos + 1
    /\ UNCHANGED <<file, platform, pc, returned, extracted, loadvars, filtervars, appvars>>

\* Ok(Event::Empty(e)) arm
ParseEmpty ==
    /\ pc = "loop"
    /\ ReadEvent(file, pos).type = "Empty"
    /\ SetLocals(OnEmpty(Locals, ReadEvent(file, pos)))
    /\ pos' = pos + 1
    /\ UNCHANGED <<file, platform, pc, returned, extracted, loadvars, filtervars, appvars>>

\* Ok(Event::End(e)) arm
ParseEnd ==
    /\ pc = "loop"
    /\ ReadEvent(file, pos).type = "End"
    /\ SetLocals(OnEnd(Locals, ReadEvent(file, pos), platform, file.path))
    /\ pos' = pos + 1
    /\ UNCHANGED <<file, platform, pc, returned, extracted, loadvars, filtervars, appvars>>

\* the catch-all arm: Text, CData, Comment
ParseOther ==
    /\ pc = "loop"
    /\ ReadEvent(file, pos).type \in {"Text", "CData", "Comment"}
    /\ pos' = pos + 1
    /\ UNCHANGED <<file, platform, pc, locals, returned, extracted, loadvars, filtervars, appvars>>

\* ParseErrReturn handing back what was collected before the error
ParseErrReturn_Partial(res) == Ok(res)

\* what the Eof arm and the Err arm return
ParseEofReturn(res) == Ok(res)
ParseErrReturn(res) == Err

\* Ok(Event::Eof) => break, then Ok(results)
ParseEof ==
    /\ pc = "loop"
    /\ ReadEvent(file, pos).type = "Eof"
    /\ returned' = Append(returned, ParseEofReturn(results))
    /\ pc' = "idle"
    /\ UNCHANGED <<file, platform, pos, locals, extracted, loadvars, filtervars, appvars>>

\* Err(err) => return Err(err)
ParseErr ==
    /\ pc = "loop"
    /\ ReadEvent(file, pos).type = "Err"
    /\ returned' = Append(returned, ParseErrReturn(results))
    /\ pc' = "idle"
    /\ UNCHANGED <<file, platform, pos, locals, extracted, loadvars, filtervars, appvars>>

\* --------------------------------------------- extract_game_xml_by_index
\* a call made once the file has been parsed, as the detail window does
Extract ==
    /\ pc = "idle"
    /\ Len(returned) > 0
    /\ \E target_idx \in 0..MaxTarget :
          extracted' = Some([target |-> target_idx,
                             result |-> ExtractGameXmlByIndex(file, target_idx)])
    /\ UNCHANGED <<file, platform, pc, pos, locals, returned, loadvars, filtervars, appvars>>

Next ==
    \/ ParseOpen
    \/ ParseStart
    \/ ParseEmpty
    \/ ParseEnd
    \/ ParseOther
    \/ ParseEof
    \/ ParseErr
    \/ Extract

Spec == Init /\ [][Next]_vars

\* ------------------------------------------------------- string helpers
\* the characters of the model in ascending byte order
ByteOrder ==
    <<" ", "&", "(", ")", ",", ";", "A", "B", "E", "G", "J", "K", "L", "M", "N", "P",
      "R", "S", "U", "X", "a", "c", "e", "f", "j", "k", "l", "m", "n", "o", "r", "w", "x">>
CharCode(c) == CHOOSE i \in 1..Len(ByteOrder) : ByteOrder[i] = c

\* Ord for str: lexicographic by byte, a proper prefix first
RECURSIVE StrLess(_, _)
StrLess(a, b) ==
    IF b = <<>> THEN FALSE
    ELSE IF a = <<>> THEN TRUE
    ELSE IF Head(a) # Head(b) THEN CharCode(Head(a)) < CharCode(Head(b))
    ELSE StrLess(Tail(a), Tail(b))

Whitespace == {" "}
RECURSIVE TrimStart(_)
TrimStart(str) ==
    IF str # <<>> /\ Head(str) \in Whitespace THEN TrimStart(Tail(str)) ELSE str
RECURSIVE TrimEnd(_)
TrimEnd(str) ==
    IF str # <<>> /\ str[Len(str)] \in Whitespace
    THEN TrimEnd(SubSeq(str, 1, Len(str) - 1)) ELSE str
\* str::trim
Trim(str) == TrimEnd(TrimStart(str))

\* first index of c in str from i, 0 when none
RECURSIVE FindChar(_, _, _)
FindChar(str, c, i) ==
    IF i > Len(str) THEN 0
    ELSE IF str[i] = c THEN i
    ELSE FindChar(str, c, i + 1)

\* str::split(',')
RECURSIVE SplitComma(_)
SplitComma(str) ==
    LET k == FindChar(str, ",", 1)
    IN IF k = 0 THEN <<str>>
       ELSE <<SubSeq(str, 1, k - 1)>> \o SplitComma(SubSeq(str, k + 1, Len(str)))

\* sort_unstable
RECURSIVE InsertSorted(_, _)
InsertSorted(sorted, v) ==
    IF sorted = <<>> THEN <<v>>
    ELSE IF StrLess(v, Head(sorted)) THEN <<v>> \o sorted
    ELSE <<Head(sorted)>> \o InsertSorted(Tail(sorted), v)
RECURSIVE SortStrings(_)
SortStrings(list) ==
    IF list = <<>> THEN <<>>
    ELSE InsertSorted(SortStrings(SubSeq(list, 1, Len(list) - 1)), list[Len(list)])
\* Vec::dedup : drops consecutive repeats
RECURSIVE Dedup(_)
Dedup(list) ==
    IF Len(list) < 2 THEN list
    ELSE IF list[1] = list[2] THEN Dedup(Tail(list))
    ELSE <<list[1]>> \o Dedup(Tail(list))

\* ------------------------------------------------------------ load_index
\* parse_games_from_file as one call
ParseGamesFromFile(f) ==
    IF ~f.openable THEN Err
    ELSE LET s == ParseFold(ParserInit, f.events, 1, PlatformOf(f.path), f.path)
         IN IF f.err THEN ParseErrReturn(s.results) ELSE ParseEofReturn(s.results)

\* DirExists with the check left out
DirExists_Always(d) == TRUE

\* xmldb_dir.exists()
DirExists(d) == d.exists

\* XmlFiles with the extension compared without regard to letter case
RECURSIVE XmlFiles_IgnoreCase(_)
XmlFiles_IgnoreCase(entries) ==
    IF entries = <<>> THEN <<>>
    ELSE (IF Head(entries).path.ext \in {Some(sXml), Some(<<"X", "M", "L">>)}
          THEN <<Head(entries)>> ELSE <<>>)
         \o XmlFiles_IgnoreCase(Tail(entries))

\* lines 943-953: the files whose extension is exactly "xml", in walk order
RECURSIVE XmlFiles(_)
XmlFiles(entries) ==
    IF entries = <<>> THEN <<>>
    ELSE (IF Head(entries).path.ext = Some(sXml) THEN <<Head(entries)>> ELSE <<>>)
         \o XmlFiles(Tail(entries))

\* GamesOf with the walk over the results stopped at the first failed parse
RECURSIVE GamesOf_StopAtError(_)
GamesOf_StopAtError(rs) ==
    IF rs = <<>> THEN <<>>
    ELSE IF Head(rs).ok THEN Head(rs).value \o GamesOf_StopAtError(Tail(rs))
    ELSE <<>>

\* lines 959-963: filter_map(.ok()).flatten().collect() keeps the order of files
RECURSIVE GamesOf(_)
GamesOf(rs) ==
    IF rs = <<>> THEN <<>>
    ELSE (IF Head(rs).ok THEN Head(rs).value ELSE <<>>) \o GamesOf(Tail(rs))

\* map a sequence through F, flattening the sequences F yields
RECURSIVE FlatMap(_, _)
FlatMap(F(_), list) ==
    IF list = <<>> THEN <<>> ELSE F(Head(list)) \o FlatMap(F, Tail(list))

NonEmpty(str) == IF str = <<>> THEN <<>> ELSE <<str>>

\* lines 965-970
PlatformFacet(games) ==
    Dedup(SortStrings(FlatMap(LAMBDA g : <<g.platform>>, games)))
\* lines 972-978
RegionFacet(games) ==
    Dedup(SortStrings(FlatMap(
        LAMBDA g : IF IsSome(g.region) THEN NonEmpty(Trim(Unwrap(g.region))) ELSE <<>>,
        games)))
\* lines 980-988
LanguageFacet(games) ==
    Dedup(SortStrings(FlatMap(
        LAMBDA g : IF IsSome(g.languages)
                   THEN FlatMap(LAMBDA t : NonEmpty(Trim(t)), SplitComma(Unwrap(g.languages)))
                   ELSE <<>>,
        games)))

\* the status strings: "未找到 XML 文件" and the two counts of line 990
StatusNoXml == [kind |-> "no_xml", platforms |-> 0, games |-> 0]
StatusIndexed(np, ng) == [kind |-> "indexed", platforms |-> np, games |-> ng]

Index(games, plats, regions, languages, status) ==
    [games |-> games, platforms |-> plats, regions |-> regions,
     languages |-> languages, status |-> status]

\* lines 965-996
BuildIndex(games) ==
    Index(games, PlatformFacet(games), RegionFacet(games), LanguageFacet(games),
          StatusIndexed(Len(PlatformFacet(games)), Len(games)))

\* lines 938-957: the existence check, the walk, the no-file return
LoadStart ==
    /\ lpc = "start"
    /\ IF ~DirExists(dir)
       THEN /\ load_ret' = Some(Err)
            /\ lpc' = "done"
            /\ UNCHANGED <<files, tasks>>
       ELSE /\ files' = XmlFiles(dir.entries)
            /\ IF files' = <<>>
               THEN /\ load_ret' = Some(Ok(Index(<<>>, <<>>, <<>>, <<>>, StatusNoXml)))
                    /\ lpc' = "done"
                    /\ UNCHANGED tasks
               ELSE /\ tasks' = [i \in 1..Len(files') |-> None]
                    /\ lpc' = "par"
                    /\ UNCHANGED load_ret
    /\ UNCHANGED <<dir, finished, parsevars, filtervars, appvars>>

\* one task of the parallel iterator parses its file; the tasks run in any
\* order
LoadParseTask ==
    /\ lpc = "par"
    /\ \E i \in 1..Len(files) :
          /\ tasks[i] = None
          /\ tasks' = [tasks EXCEPT ![i] = Some(ParseGamesFromFile(files[i]))]
          /\ finished' = Append(finished, i)
    /\ UNCHANGED <<dir, lpc, files, load_ret, parsevars, filtervars, appvars>>

\* LoadCollect with the results gathered in the order of completion
LoadCollect_CompletionOrder ==
    /\ lpc = "par"
    /\ \A i \in 1..Len(files) : tasks[i] # None
    /\ load_ret' = Some(Ok(BuildIndex(GamesOf([n \in 1..Len(files) |->
                                                  Unwrap(tasks[finished[n]])]))))
    /\ lpc' = "done"
    /\ UNCHANGED <<dir, files, tasks, finished, parsevars, filtervars, appvars>>

\* every task has finished: collect in the order of files, derive the facets,
\* return
LoadCollect ==
    /\ lpc = "par"
    /\ \A i \in 1..Len(files) : tasks[i] # None
    /\ load_ret' = Some(Ok(BuildIndex(GamesOf([i \in 1..Len(files) |-> Unwrap(tasks[i])]))))
    /\ lpc' = "done"
    /\ UNCHANGED <<dir, files, tasks, finished, parsevars, filtervars, appvars>>

NextLoad ==
    \/ LoadStart
    \/ LoadParseTask
    \/ LoadCollect

\* the directories: missing, or holding at most MaxFiles files with distinct
\* paths: NES.xml, "GB (U).xml", NES.XML, NES (no extension), " (U).xml"
sGB == <<"G", "B", " ", "(", "U", ")">>
sXML == <<"X", "M", "L">>
sEnFr == <<"e", "n", ",", " ", "f", "r", ",", "e", "n">>
sEUsp == <<" ", "E", "U", " ">>
LoadPaths == {Path(Some(sNES), Some(sXml)), Path(Some(sGB), Some(sXml)),
              Path(Some(sNES), Some(sXML)), Path(Some(sNES), None),
              Path(Some(sParenU), Some(sXml))}
LoadContents ==
    {[openable |-> TRUE, err |-> FALSE, events |-> <<>>],
     [openable |-> TRUE, err |-> FALSE,
      events |-> <<Game(Some(sA), Some(sEU), Some(sEnFr)), EndEv("game")>>],
     [openable |-> TRUE, err |-> FALSE,
      events |-> <<Game(Some(sA), None, None)>> \o Archive(Some(sArc), Some(sUS), Some(sJa))
                 \o <<EndEv("game"), Game(Some(sB), Some(sEUsp), None), EndEv("game")>>],
     [openable |-> TRUE, err |-> TRUE,
      events |-> <<Game(Some(sB), Some(sJP), Some(sEn)), EndEv("game")>>],
     [openable |-> FALSE, err |-> FALSE, events |-> <<>>]}

IsDir(d) ==
    \/ d = [exists |-> FALSE, entries |-> <<>>]
    \/ \E k \in 0..MaxFiles : \E ps \in [1..k -> LoadPaths] : \E cs \in [1..k -> LoadContents] :
          /\ \A i, j \in 1..k : ps[i] = ps[j] => i = j
          /\ d = [exists |-> TRUE,
                  entries |-> [i \in 1..k |->
                      File(ps[i], cs[i].openable, cs[i].events, cs[i].err)]]

InitLoad ==
    /\ IsDir(dir)
    /\ lpc = "start"
    /\ files = <<>>
    /\ tasks = <<>>
    /\ finished = <<>>
    /\ load_ret = None
    /\ index = <<>>
    /\ query = <<>>
    /\ platform_filters = <<>>
    /\ region_filter = <<>>
    /\ language_filter = <<>>
    /\ filtered = None
    /\ file = File(ThePath, FALSE, <<>>, FALSE)
    /\ pc = "idle"
    /\ pos = 1
    /\ platform = <<>>
    /\ in_game = FALSE
    /\ current_game_name = None
    /\ current_archive_region = None
    /\ current_archive_languages = None
    /\ current_archive_name = None
    /\ current_game_region = None
    /\ current_game_languages = None
    /\ current_details_region = None
    /\ game_idx_counter = 0
    /\ results = <<>>
    /\ returned = <<>>
    /\ extracted = None
    /\ ImageIdle
    /\ RecentIdle
    /\ UiIdle

SpecLoad == InitLoad /\ [][NextLoad]_vars

\* -------------------------------------------------------- filter_results
UpperCase == <<"A", "B", "C", "D", "E", "F", "G", "H", "I", "J", "K", "L", "M",
               "N", "O", "P", "Q", "R", "S", "T", "U", "V", "W", "X", "Y", "Z">>
LowerCase == <<"a", "b", "c", "d", "e", "f", "g", "h", "i", "j", "k", "l", "m",
               "n", "o", "p", "q", "r", "s", "t", "u", "v", "w", "x", "y", "z">>
\* str::to_lowercase, on the letters of the model
LowerChar(c) ==
    IF \E i \in 1..26 : UpperCase[i] = c
    THEN LowerCase[CHOOSE i \in 1..26 : UpperCase[i] = c] ELSE c
ToLowercase(str) == [i \in 1..Len(str) |-> LowerChar(str[i])]

\* str::contains
Contains(hay, needle) ==
    \E i \in 0..(Len(hay) - Len(needle)) : SubSeq(hay, i + 1, i + Len(needle)) = needle

\* the argument of .take()
TakeLimit == 1000

\* Take with one element more than asked
Take_OneMore(list, n) == SubSeq(list, 1, IF Len(list) < n + 1 THEN Len(list) ELSE n + 1)

\* Iterator::take(n).collect()
Take(list, n) == SubSeq(list, 1, IF Len(list) < n THEN Len(list) ELSE n)

\* the free-text test: name, or archive_name when present
MatchesQuery(g, q) ==
    \/ Contains(ToLowercase(g.name), q)
    \/ IF IsSome(g.archive_name)
       THEN Contains(ToLowercase(Unwrap(g.archive_name)), q) ELSE FALSE

\* platform_set.contains(&g.platform)
MatchesPlatform(g, platform_set) == g.platform \in platform_set

\* MatchesRegion with an absent region accepted
MatchesRegion_AbsentAccepted(g, r) ==
    IF IsSome(g.region) THEN Contains(ToLowercase(Unwrap(g.region)), r) ELSE TRUE

\* the region test: substring of the lower-cased region, false when absent
MatchesRegion(g, r) ==
    IF IsSome(g.region) THEN Contains(ToLowercase(Unwrap(g.region)), r) ELSE FALSE

\* MatchesLanguage with a substring test on the whole value
MatchesLanguage_Substring(g, l) ==
    IF IsSome(g.languages) THEN Contains(ToLowercase(Unwrap(g.languages)), l) ELSE FALSE

\* the language test: some comma-split token, trimmed and lower-cased, equals l
MatchesLanguage(g, l) ==
    IF IsSome(g.languages)
    THEN LET toks == SplitComma(Unwrap(g.languages))
         IN \E k \in 1..Len(toks) : ToLowercase(Trim(toks[k])) = l
    ELSE FALSE

\* FilterClosure with the criteria joined by "or"
FilterClosure_AnyCriterion(g, q, plats, platform_set, r, l) ==
    \/ (q # <<>> /\ MatchesQuery(g, q))
    \/ (plats # <<>> /\ MatchesPlatform(g, platform_set))
    \/ (r # <<>> /\ MatchesRegion(g, r))
    \/ (l # <<>> /\ MatchesLanguage(g, l))
    \/ (q = <<>> /\ plats = <<>> /\ r = <<>> /\ l = <<>>)

\* the closure of .filter: ok starts true and each non-empty criterion is
\* and-ed into it
FilterClosure(g, q, plats, platform_set, r, l) ==
    /\ (q # <<>> => MatchesQuery(g, q))
    /\ (plats # <<>> => MatchesPlatform(g, platform_set))
    /\ (r # <<>> => MatchesRegion(g, r))
    /\ (l # <<>> => MatchesLanguage(g, l))

\* filter_results(index, query, platforms, region, language)
FilterResults(entries, text, plats, region, language) ==
    LET q == ToLowercase(Trim(text))
        r == ToLowercase(Trim(region))
        l == ToLowercase(Trim(language))
        platform_set == {plats[i] : i \in 1..Len(plats)}
    IN Take(SelectSeq(entries, LAMBDA g : FilterClosure(g, q, plats, platform_set, r, l)),
            TakeLimit)

\* the indexes and filter fields of the filter runs
sAb == <<"A", "b">>
sxA == <<"x", "A">>
sX == <<"X">>
sNes == <<"n", "e", "s">>
sGb == <<"G", "B">>
sEu == <<"e", "u">>
sEnCommaFr == <<"e", "n", ",", "f", "r">>
sENFr == <<"E", "N", ",", " ", "f", "r">>
sEnglish == <<"e", "n", "g", "l", "i", "s", "h">>
Entry(name, archive_name, plat, region, languages) ==
    [platform |-> plat, name |-> name, archive_name |-> archive_name,
     region |-> region, languages |-> languages, file_path |-> ThePath, game_idx |-> 0]
FilterEntries ==
    <<Entry(sAb, None, sNES, Some(sEU), Some(sEnCommaFr)),
      Entry(sB, Some(sxA), sNes, None, Some(sENFr)),
      Entry(sX, None, sGb, Some(sUS), Some(sEnglish)),
      Entry(sA, Some(sB), sNES, Some(sEu), None)>>
FilterTexts == {<<>>, <<" ">>, <<"a", " ">>}
FilterPlatforms == {<<>>, <<sNES>>, <<sNes, sGb>>}
FilterRegions == {<<>>, <<"e", "u">>, <<" ", "U">>}
FilterLanguages == {<<>>, <<" ", "E", "N">>, <<"f", "r">>}

\* the entries es as an index: game_idx is the position, as for one file
AsIndex(es) == [i \in 1..Len(es) |-> [es[i] EXCEPT !.game_idx = i - 1]]

\* an index of at most MaxIndex entries; or one long enough to reach the
\* limit: TakeLimit or 1500 copies of the first entry, or 1334 entries, every
\* fourth a copy of the third entry and the others (1001) of the first
IsIndex(ix) ==
    \/ \E k \in 0..MaxIndex : \E c \in [1..k -> 1..Len(FilterEntries)] :
          ix = AsIndex([i \in 1..k |-> FilterEntries[c[i]]])
    \/ \E n \in {TakeLimit, TakeLimit + TakeLimit \div 2} :
          ix = AsIndex([i \in 1..n |-> FilterEntries[1]])
    \/ ix = AsIndex([i \in 1..(TakeLimit + TakeLimit \div 3 + 1) |->
                        FilterEntries[IF i % 4 = 0 THEN 3 ELSE 1]])

\* one frame of the application: the filter fields as the user left them,
\* then filter_results over the index (main.rs:610)
FilterFrame ==
    /\ filtered = None
    /\ \E t \in FilterTexts : query' = t
    /\ \E ps \in FilterPlatforms : platform_filters' = ps
    /\ \E r \in FilterRegions : region_filter' = r
    /\ \E l \in FilterLanguages : language_filter' = l
    /\ filtered' = Some(FilterResults(index, query', platform_filters',
                                      region_filter', language_filter'))
    /\ UNCHANGED <<index, parsevars, loadvars, appvars>>

NextFilter == FilterFrame

InitFilter ==
    /\ IsIndex(index)
    /\ query = <<>>
    /\ platform_filters = <<>>
    /\ region_filter = <<>>
    /\ language_filter = <<>>
    /\ filtered = None
    /\ dir = [exists |-> FALSE, entries |-> <<>>]
    /\ lpc = "start"
    /\ files = <<>>
    /\ tasks = <<>>
    /\ finished = <<>>
    /\ load_ret = None
    /\ file = File(ThePath, FALSE, <<>>, FALSE)
    /\ pc = "idle"
    /\ pos = 1
    /\ platform = <<>>
    /\ in_game = FALSE
    /\ current_game_name = None
    /\ current_archive_region = None
    /\ current_archive_languages = None
    /\ current_archive_name = None
    /\ current_game_region = None
    /\ current_game_languages = None
    /\ current_details_region = None
    /\ game_idx_counter = 0
    /\ results = <<>>
    /\ returned = <<>>
    /\ extracted = None
    /\ ImageIdle
    /\ RecentIdle
    /\ UiIdle

SpecFilter == InitFilter /\ [][NextFilter]_vars

\* ========================================================= image_loader.rs
\* the keys of platform_map (image_loader.rs:31-91); every value of the map
\* is its key with each space replaced by an underscore
PlatformMapKeys ==
    {<<"N", "i", "n", "t", "e", "n", "d", "o", " ", "-", " ", "G", "a", "m", "e", " ", "B", "o", "y">>,
     <<"N", "i", "n", "t", "e", "n", "d", "o", " ", "-", " ", "G", "a", "m", "e", " ", "B", "o", "y", " ", "A", "d", "v", "a", "n", "c", "e">>,
     <<"N", "i", "n", "t", "e", "n", "d", "o", " ", "-", " ", "G", "a", "m", "e", " ", "B", "o", "y", " ", "C", "o", "l", "o", "r">>,
     <<"N", "i", "n", "t", "e", "n", "d", "o", " ", "-", " ", "N", "i", "n", "t", "e", "n", "d", "o", " ", "E", "n", "t", "e", "r", "t", "a", "i", "n", "m", "e", "n", "t", " ", "S", "y", "s", "t", "e", "m">>,
     <<"N", "i", "n", "t", "e", "n", "d", "o", " ", "-", " ", "S", "u", "p", "e", "r", " ", "N", "i", "n", "t", "e", "n", "d", "o", " ", "E", "n", "t", "e", "r", "t", "a", "i", "n", "m", "e", "n", "t", " ", "S", "y", "s", "t", "e", "m">>,
     <<"N", "i", "n", "t", "e", "n", "d", "o", " ", "-", " ", "N", "i", "n", "t", "e", "n", "d", "o", " ", "6", "4">>,
     <<"N", "i", "n", "t", "e", "n", "d", "o", " ", "-", " ", "G", "a", "m", "e", "C", "u", "b", "e">>,
     <<"N", "i", "n", "t", "e", "n", "d", "o", " ", "-", " ", "W", "i", "i">>,
     <<"N", "i", "n", "t", "e", "n", "d", "o", " ", "-", " ", "W", "i", "i", " ", "U">>,
     <<"N", "i", "n", "t", "e", "n", "d", "o", " ", "-", " ", "N", "i", "n", "t", "e", "n", "d", "o", " ", "D", "S">>,
     <<"N", "i", "n", "t", "e", "n", "d", "o", " ", "-", " ", "N", "i", "n", "t", "e", "n", "d", "o", " ", "3", "D", "S">>,
     <<"S", "e", "g", "a", " ", "-", " ", "M", "e", "g", "a", " ", "D", "r", "i", "v", "e", " ", "-", " ", "G", "e", "n", "e", "s", "i", "s">>,
     <<"S", "e", "g", "a", " ", "-", " ", "M", "a", "s", "t", "e", "r", " ", "S", "y", "s", "t", "e", "m", " ", "-", " ", "M", "a", "r", "k", " ", "I", "I", "I">>,
     <<"S", "e", "g", "a", " ", "-", " ", "G", "a", "m", "e", " ", "G", "e", "a", "r">>,
     <<"S", "e", "g", "a", " ", "-", " ", "S", "a", "t", "u", "r", "n">>,
     <<"S", "e", "g", "a", " ", "-", " ", "D", "r", "e", "a", "m", "c", "a", "s", "t">>,
     <<"S", "o", "n", "y", " ", "-", " ", "P", "l", "a", "y", "S", "t", "a", "t", "i", "o", "n">>,
     <<"S", "o", "n", "y", " ", "-", " ", "P", "l", "a", "y", "S", "t", "a", "t", "i", "o", "n", " ", "2">>,
     <<"S", "o", "n", "y", " ", "-", " ", "P", "l", "a", "y", "S", "t", "a", "t", "i", "o", "n", " ", "3">>,
     <<"S", "o", "n", "y", " ", "-", " ", "P", "l", "a", "y", "S", "t", "a", "t", "i", "o", "n", " ", "P", "o", "r", "t", "a", "b", "l", "e">>,
     <<"S", "o", "n", "y", " ", "-", " ", "P", "l", "a", "y", "S", "t", "a", "t", "i", "o", "n", " ", "V", "i", "t", "a">>,
     <<"A", "t", "a", "r", "i", " ", "-", " ", "2", "6", "0", "0">>,
     <<"A", "t", "a", "r", "i", " ", "-", " ", "5", "2", "0", "0">>,
     <<"A", "t", "a", "r", "i", " ", "-", " ", "7", "8", "0", "0">>,
     <<"A", "t", "a", "r", "i", " ", "-", " ", "J", "a", "g", "u", "a", "r">>,
     <<"A", "t", "a", "r", "i", " ", "-", " ", "L", "y", "n", "x">>,
     <<"N", "E", "C", " ", "-", " ", "T", "u", "r", "b", "o", "G", "r", "a", "f", "x", " ", "1", "6">>,
     <<"N", "E", "C", " ", "-", " ", "P", "C", " ", "E", "n", "g", "i", "n", "e">>,
     <<"N", "E", "C", " ", "-", " ", "P", "C", " ", "E", "n", "g", "i", "n", "e", " ", "C", "D">>,
     <<"N", "E", "C", " ", "-", " ", "S", "u", "p", "e", "r", "G", "r", "a", "f", "x">>,
     <<"B", "a", "n", "d", "a", "i", " ", "-", " ", "W", "o", "n", "d", "e", "r", "S", "w", "a", "n">>,
     <<"B", "a", "n", "d", "a", "i", " ", "-", " ", "W", "o", "n", "d", "e", "r", "S", "w", "a", "n", " ", "C", "o", "l", "o", "r">>,
     <<"S", "N", "K", " ", "-", " ", "N", "e", "o", " ", "G", "e", "o", " ", "P", "o", "c", "k", "e", "t">>,
     <<"S", "N", "K", " ", "-", " ", "N", "e", "o", " ", "G", "e", "o", " ", "P", "o", "c", "k", "e", "t", " ", "C", "o", "l", "o", "r">>,
     <<"M", "i", "c", "r", "o", "s", "o", "f", "t", " ", "-", " ", "X", "b", "o", "x">>,
     <<"M", "i", "c", "r", "o", "s", "o", "f", "t", " ", "-", " ", "X", "b", "o", "x", " ", "3", "6", "0">>,
     <<"C", "o", "m", "m", "o", "d", "o", "r", "e", " ", "-", " ", "A", "m", "i", "g", "a">>,
     <<"C", "o", "m", "m", "o", "d", "o", "r", "e", " ", "-", " ", "6", "4">>,
     <<"A", "p", "p", "l", "e", " ", "-", " ", "I", "I">>,
     <<"A", "p", "p", "l", "e", " ", "-", " ", "I", "I", "G", "S">>,
     <<"3", "D", "O", " ", "-", " ", "I", "n", "t", "e", "r", "a", "c", "t", "i", "v", "e", " ", "M", "u", "l", "t", "i", "p", "l", "a", "y", "e", "r">>,
     <<"A", "m", "s", "t", "r", "a", "d", " ", "-", " ", "C", "P", "C">>,
     <<"C", "o", "l", "e", "c", "o", " ", "-", " ", "C", "o", "l", "e", "c", "o", "V", "i", "s", "i", "o", "n">>,
     <<"G", "C", "E", " ", "-", " ", "V", "e", "c", "t", "r", "e", "x">>,
     <<"M", "a", "g", "n", "a", "v", "o", "x", " ", "-", " ", "O", "d", "y", "s", "s", "e", "y", "2">>,
     <<"M", "a", "t", "t", "e", "l", " ", "-", " ", "I", "n", "t", "e", "l", "l", "i", "v", "i", "s", "i", "o", "n">>,
     <<"M", "i", "c", "r", "o", "s", "o", "f", "t", " ", "-", " ", "M", "S", "X">>,
     <<"M", "i", "c", "r", "o", "s", "o", "f", "t", " ", "-", " ", "M", "S", "X", "2">>,
     <<"N", "E", "C", " ", "-", " ", "P", "C", "-", "8", "8">>,
     <<"N", "E", "C", " ", "-", " ", "P", "C", "-", "9", "8">>,
     <<"N", "E", "C", " ", "-", " ", "P", "C", "-", "F", "X">>,
     <<"N", "i", "n", "t", "e", "n", "d", "o", " ", "-", " ", "F", "a", "m", "i", "l", "y", " ", "C", "o", "m", "p", "u", "t", "e", "r", " ", "D", "i", "s", "k", " ", "S", "y", "s", "t", "e", "m">>,
     <<"N", "i", "n", "t", "e", "n", "d", "o", " ", "-", " ", "S", "a", "t", "e", "l", "l", "a", "v", "i", "e", "w">>,
     <<"N", "i", "n", "t", "e", "n", "d", "o", " ", "-", " ", "S", "u", "f", "a", "m", "i", " ", "T", "u", "r", "b", "o">>,
     <<"N", "i", "n", "t", "e", "n", "d", "o", " ", "-", " ", "V", "i", "r", "t", "u", "a", "l", " ", "B", "o", "y">>,
     <<"P", "h", "i", "l", "i", "p", "s", " ", "-", " ", "C", "D", "-", "i">>,
     <<"S", "N", "K", " ", "-", " ", "N", "e", "o", " ", "G", "e", "o", " ", "C", "D">>,
     <<"S", "N", "K", " ", "-", " ", "N", "e", "o", " ", "G", "e", "o">>,
     <<"W", "a", "t", "a", "r", "a", " ", "-", " ", "S", "u", "p", "e", "r", "v", "i", "s", "i", "o", "n">>}

\* str::replace(from, to), left to right over non-overlapping matches
Replace(str, from, to) ==
    LET RECURSIVE Go(_)
        Go(i) ==
            IF i > Len(str) THEN <<>>
            ELSE IF i + Len(from) - 1 <= Len(str) /\ SubSeq(str, i, i + Len(from) - 1) = from
                 THEN to \o Go(i + Len(from))
                 ELSE <<str[i]>> \o Go(i + 1)
    IN Go(1)

sUnderscore == <<"_">>
sUrlBase == <<"h", "t", "t", "p", "s", ":", "/", "/", "r", "a", "w", ".", "g", "i", "t", "h", "u", "b", "u", "s", "e", "r", "c", "o", "n", "t", "e", "n", "t", ".", "c", "o", "m", "/", "l", "i", "b", "r", "e", "t", "r", "o", "-", "t", "h", "u", "m", "b", "n", "a", "i", "l", "s", "/">>
sMaster == <<"/", "m", "a", "s", "t", "e", "r", "/">>
sPng == <<".", "p", "n", "g">>

\* platform_map.get(platform)
ThumbPlatform(plat) ==
    IF plat \in PlatformMapKeys THEN Some(Replace(plat, <<" ">>, sUnderscore)) ELSE None

\* get_image_url(platform, game_name, image_type)
GetImageUrl(plat, game_name, image_type) ==
    IF IsSome(ThumbPlatform(plat))
    THEN Some(sUrlBase \o Unwrap(ThumbPlatform(plat)) \o sMaster \o image_type \o <<"/">>
              \o Replace(Replace(Replace(game_name, <<"/">>, sUnderscore),
                                 <<"\\", "\\">>, sUnderscore),
                         <<":">>, sUnderscore)
              \o sPng)
    ELSE None

\* format!("{}_{}_{}", platform, game_name, image_type)
CacheKey(plat, game_name, image_type) ==
    plat \o sUnderscore \o game_name \o sUnderscore \o image_type

\* HashMap::get and HashMap::insert on the cache
CacheGet(c, key) == IF key \in DOMAIN c THEN Some(c[key]) ELSE None
CacheInsert(c, key, v) ==
    [k \in DOMAIN c \cup {key} |-> IF k = key THEN v ELSE c[k]]

\* what a request can come to (lines 149-195)
FetchOutcomes ==
    {"ok", "http_failure", "unreadable_body", "undecodable_image", "network_error"}

\* FetchStored with a network error storing nothing
FetchStored_ErrorStoresNothing(outcome) ==
    IF outcome = "ok" THEN "Loaded"
    ELSE IF outcome = "network_error" THEN "Loading" ELSE "NotFound"

\* the state the background thread stores for the outcome of its request
FetchStored(outcome) ==
    IF outcome = "ok" THEN "Loaded" ELSE "NotFound"

\* the calls made on the loader
sGameBoy == <<"N", "i", "n", "t", "e", "n", "d", "o", " ", "-", " ", "G", "a", "m", "e", " ", "B", "o", "y">>
sGameBoyX == <<"N", "i", "n", "t", "e", "n", "d", "o", " ", "-", " ", "G", "a", "m", "e", " ", "B", "o", "y", "_", "x">>
sXA == <<"x", "_", "A">>
sBoxarts == <<"N", "a", "m", "e", "d", "_", "B", "o", "x", "a", "r", "t", "s">>
sSnaps == <<"N", "a", "m", "e", "d", "_", "S", "n", "a", "p", "s">>
Request(plat, game_name, image_type) ==
    [platform |-> plat, game_name |-> game_name, image_type |-> image_type]
ImageRequests ==
    {Request(sGameBoy, sA, sBoxarts), Request(sGameBoy, sA, sSnaps),
     Request(sGameBoy, sXA, sBoxarts), Request(sGameBoyX, sA, sBoxarts),
     Request(sNES, sA, sBoxarts)}
KeyOf(r) == CacheKey(r.platform, r.game_name, r.image_type)
UrlOf(r) == GetImageUrl(r.platform, r.game_name, r.image_type)
ImageKeys == {KeyOf(r) : r \in ImageRequests}

\* the background threads spawned so far for a key
SpawnCount(key) == IF key \in DOMAIN spawned THEN spawned[key] ELSE 0

\* no calling thread returns in this step
NoReturn == [t \in threads |-> None]

\* lines 116-124: the key is looked up under the lock; a hit returns its state
ImageLookup(t, r) ==
    /\ img_pc[t] = "idle"
    /\ IF IsSome(CacheGet(cache, KeyOf(r)))
       THEN /\ img_ret' = [NoReturn EXCEPT ![t] = CacheGet(cache, KeyOf(r))]
            /\ UNCHANGED <<img_pc, img_req>>
       ELSE /\ img_pc' = [img_pc EXCEPT ![t] = "mark"]
            /\ img_req' = [img_req EXCEPT ![t] = Some(r)]
            /\ img_ret' = NoReturn
    /\ fetch_log' = None
    /\ UNCHANGED <<threads, img_calls, cache, fetches, spawned>>
    /\ UNCHANGED <<parsevars, loadvars, filtervars, recentvars, uivars>>

\* lines 127-130: the lock is taken again and the key is marked Loading
ImageMark(t) ==
    /\ img_pc[t] = "mark"
    /\ cache' = CacheInsert(cache, KeyOf(Unwrap(img_req[t])), "Loading")
    /\ img_pc' = [img_pc EXCEPT ![t] = "url"]
    /\ img_ret' = NoReturn
    /\ fetch_log' = None
    /\ UNCHANGED <<threads, img_calls, img_req, fetches, spawned>>
    /\ UNCHANGED <<parsevars, loadvars, filtervars, recentvars, uivars>>

\* lines 133-140: no URL for the platform
ImageNoUrl(t) ==
    /\ img_pc[t] = "url"
    /\ UrlOf(Unwrap(img_req[t])) = None
    /\ cache' = CacheInsert(cache, KeyOf(Unwrap(img_req[t])), "NotFound")
    /\ img_ret' = [NoReturn EXCEPT ![t] = Some("NotFound")]
    /\ img_pc' = [img_pc EXCEPT ![t] = "idle"]
    /\ img_req' = [img_req EXCEPT ![t] = None]
    /\ fetch_log' = None
    /\ UNCHANGED <<threads, img_calls, fetches, spawned>>
    /\ UNCHANGED <<parsevars, loadvars, filtervars, recentvars, uivars>>

\* lines 143-201: a background thread is spawned for the URL
ImageSpawn(t) ==
    /\ img_pc[t] = "url"
    /\ IsSome(UrlOf(Unwrap(img_req[t])))
    /\ fetches' = fetches \cup {[key |-> KeyOf(Unwrap(img_req[t])),
                                 url |-> Unwrap(UrlOf(Unwrap(img_req[t]))),
                                 nth |-> SpawnCount(KeyOf(Unwrap(img_req[t]))) + 1]}
    /\ spawned' = [spawned EXCEPT ![KeyOf(Unwrap(img_req[t]))] = @ + 1]
    /\ img_ret' = [NoReturn EXCEPT ![t] = Some("Loading")]
    /\ img_pc' = [img_pc EXCEPT ![t] = "idle"]
    /\ img_req' = [img_req EXCEPT ![t] = None]
    /\ fetch_log' = None
    /\ UNCHANGED <<threads, img_calls, cache>>
    /\ UNCHANGED <<parsevars, loadvars, filtervars, recentvars, uivars>>

\* lines 148-199: the request of a background thread returns and the thread
\* stores the result under its key
FetchReturn(key) ==
    /\ \E f \in fetches :
          /\ f.key = key
          /\ \E outcome \in FetchOutcomes :
                /\ cache' = CacheInsert(cache, key, FetchStored(outcome))
                /\ fetch_log' = Some([key |-> key, outcome |-> outcome])
          /\ fetches' = fetches \ {f}
    /\ img_ret' = NoReturn
    /\ UNCHANGED <<threads, img_calls, img_pc, img_req, spawned>>
    /\ UNCHANGED <<parsevars, loadvars, filtervars, recentvars, uivars>>

ImageCallStep == \E t \in threads : \E r \in img_calls : ImageLookup(t, r)
ImageMarkStep == \E t \in threads : ImageMark(t)
ImageNoUrlStep == \E t \in threads : ImageNoUrl(t)
ImageSpawnStep == \E t \in threads : ImageSpawn(t)
FetchStep == \E key \in ImageKeys : FetchReturn(key)

NextImage ==
    \/ ImageCallStep
    \/ ImageMarkStep
    \/ ImageNoUrlStep
    \/ ImageSpawnStep
    \/ FetchStep

\* everything but the loader, at rest
RestIdle ==
    /\ dir = [exists |-> FALSE, entries |-> <<>>]
    /\ lpc = "start"
    /\ files = <<>>
    /\ tasks = <<>>
    /\ finished = <<>>
    /\ load_ret = None
    /\ file = File(ThePath, FALSE, <<>>, FALSE)
    /\ pc = "idle"
    /\ pos = 1
    /\ platform = <<>>
    /\ in_game = FALSE
    /\ current_game_name = None
    /\ current_archive_region = None
    /\ current_archive_languages = None
    /\ current_archive_name = None
    /\ current_game_region = None
    /\ current_game_languages = None
    /\ current_details_region = None
    /\ game_idx_counter = 0
    /\ results = <<>>
    /\ returned = <<>>
    /\ extracted = None

FilterIdle ==
    /\ index = <<>>
    /\ query = <<>>
    /\ platform_filters = <<>>
    /\ region_filter = <<>>
    /\ language_filter = <<>>
    /\ filtered = None

\* ImageLoader::new() (lines 21-26), used by the given calling threads for
\* the given calls
LoaderNew(ts, rs) ==
    /\ threads = ts
    /\ img_calls = rs
    /\ cache = <<>>
    /\ img_pc = [t \in ts |-> "idle"]
    /\ img_req = [t \in ts |-> None]
    /\ img_ret = [t \in ts |-> None]
    /\ fetches = {}
    /\ spawned = [key \in ImageKeys |-> 0]
    /\ fetch_log = None

\* the application: update, on the UI thread, is the only caller (main.rs:653)
InitImage ==
    /\ LoaderNew({"ui"}, ImageRequests)
    /\ RestIdle
    /\ FilterIdle
    /\ RecentIdle
    /\ UiIdle

SpecImage == InitImage /\ [][NextImage]_vars

\* a calling thread runs on to its return, and the request of a background
\* thread returns
ImageFairness ==
    /\ WF_vars(ImageMarkStep)
    /\ WF_vars(ImageNoUrlStep)
    /\ WF_vars(ImageSpawnStep)
    /\ \A key \in ImageKeys : WF_vars(FetchReturn(key))

SpecImageFair == SpecImage /\ ImageFairness

\* the loader shared by two calling threads, which ask for the same images
SharedRequests == {Request(sGameBoy, sA, sBoxarts), Request(sNES, sA, sBoxarts)}

InitImageShared ==
    /\ LoaderNew({"ui", "worker"}, SharedRequests)
    /\ RestIdle
    /\ FilterIdle
    /\ RecentIdle
    /\ UiIdle

SpecImageShared == InitImageShared /\ [][NextImage]_vars

\* ============================================================== add_recent
\* list.truncate(3)
RecentLimit == 3

\* list.iter().position(|v| v == value)
Position(list, value) ==
    IF \E i \in 1..Len(list) : list[i] = value
    THEN Some(CHOOSE i \in 1..Len(list) :
                 list[i] = value /\ \A j \in 1..(i - 1) : list[j] # value)
    ELSE None

\* list.remove(pos)
Remove(list, at) == SubSeq(list, 1, at - 1) \o SubSeq(list, at + 1, Len(list))

\* AddRecent without the removal of the value already in the list
AddRecent_KeepsOld(list, value) ==
    LET inserted == <<value>> \o list
    IN IF Len(inserted) > RecentLimit THEN SubSeq(inserted, 1, RecentLimit) ELSE inserted

\* add_recent(list, value)
AddRecent(list, value) ==
    LET removed == IF IsSome(Position(list, value))
                   THEN Remove(list, Unwrap(Position(list, value)))
                   ELSE list
        inserted == <<value>> \o removed
    IN IF Len(inserted) > RecentLimit THEN SubSeq(inserted, 1, RecentLimit) ELSE inserted

\* the values handed to add_recent, and the lists it is first handed: what
\* earlier add_recent calls left in the preferences
RecentValues == {sNES, sGb, sEU, sEn}
NoDuplicates(list) == \A i, j \in 1..Len(list) : list[i] = list[j] => i = j
IsRecentList(l) ==
    \E n \in 0..RecentLimit : \E f \in [1..n -> RecentValues] : l = f /\ NoDuplicates(f)

\* one call add_recent(&mut recent, value)
RecentAdd ==
    /\ Len(added.values) < MaxAdds
    /\ \E value \in RecentValues :
          /\ recent' = AddRecent(recent, value)
          /\ added' = [added EXCEPT !.values = Append(@, value)]
    /\ UNCHANGED <<parsevars, loadvars, filtervars, imagevars, uivars>>

NextRecent == RecentAdd

InitRecent ==
    /\ IsRecentList(recent)
    /\ added = [init |-> recent, values |-> <<>>]
    /\ RestIdle
    /\ FilterIdle
    /\ ImageIdle
    /\ UiIdle

SpecRecent == InitRecent /\ [][NextRecent]_vars

\* ================================================= RetroGameManagerApp::update
\* the fields of the application that a frame reads and writes
App ==
    [query |-> query, platform_filters |-> platform_filters,
     region_filter |-> region_filter, language_filter |-> language_filter,
     recent_platforms |-> recent_platforms, recent_regions |-> recent_regions,
     recent_languages |-> recent_languages, recent_store |-> recent_store,
     default_vendors |-> default_vendors,
     show_platform_selector |-> show_platform_selector,
     show_preferences |-> show_preferences,
     selected_index |-> selected_index, show_detail |-> show_detail,
     detail_xml_cache |-> detail_xml_cache, detail_tab |-> detail_tab,
     xml_of |-> xml_of, cache |-> cache, fetches |-> fetches, spawned |-> spawned]

\* persist_recents (lines 304-324)
PersistRecents(s) ==
    [s EXCEPT !.recent_store =
        [platforms |-> s.recent_platforms,
         regions |-> s.recent_regions,
         languages |-> s.recent_languages,
         selected_platforms |-> s.platform_filters,
         selected_region |-> IF s.region_filter = <<>> THEN None ELSE Some(s.region_filter),
         selected_language |-> IF s.language_filter = <<>> THEN None ELSE Some(s.language_filter),
         default_vendors |-> s.default_vendors]]

\* Vec::contains, Vec::retain(|p| p != value), str::starts_with
VecContains(vec, v) == \E i \in 1..Len(vec) : vec[i] = v
Retain(vec, v) == SelectSeq(vec, LAMBDA x : x # v)
StartsWith(str, prefix) ==
    Len(prefix) <= Len(str) /\ SubSeq(str, 1, Len(prefix)) = prefix

\* lines 396-405: the "select all" checkbox
SelectAllClicked(s) ==
    PersistRecents(
        IF Len(s.platform_filters) = Len(platforms)
        THEN [s EXCEPT !.platform_filters = <<>>]
        ELSE [s EXCEPT !.platform_filters = platforms])

\* lines 416-430: the platforms that start with one of the vendors
Vendors(s) ==
    SelectSeq([i \in 1..Len(SplitComma(s.default_vendors)) |->
                  Trim(SplitComma(s.default_vendors)[i])],
              LAMBDA v : v # <<>>)
CommonPlatforms(s) ==
    SelectSeq(platforms,
              LAMBDA p : \E i \in 1..Len(Vendors(s)) : StartsWith(p, Vendors(s)[i]))

\* lines 436-454: a checkbox of the "common platforms" group
CommonPlatformClicked(s, p) ==
    IF ~VecContains(s.platform_filters, p)
    THEN PersistRecents([s EXCEPT !.platform_filters = Append(@, p),
                                  !.recent_platforms = AddRecent(@, p)])
    ELSE PersistRecents([s EXCEPT !.platform_filters = Retain(@, p)])

\* lines 480-504: a checkbox of the platform list
PlatformClicked(s, p) ==
    IF ~VecContains(s.platform_filters, p)
    THEN PersistRecents([s EXCEPT !.platform_filters = Append(@, p),
                                  !.recent_platforms = AddRecent(@, p)])
    ELSE [s EXCEPT !.platform_filters = Retain(@, p)]

\* lines 529-555: a region chosen from the recent or the available ones
RegionChosen(s, r) ==
    PersistRecents([s EXCEPT !.region_filter = r, !.recent_regions = AddRecent(@, r)])

\* lines 541-543: the label "all" of the region box
RegionAllClicked(s) == [s EXCEPT !.region_filter = <<>>]

\* lines 567-593: a language chosen from the recent or the available ones
LanguageChosen(s, l) ==
    PersistRecents([s EXCEPT !.language_filter = l, !.recent_languages = AddRecent(@, l)])

\* lines 579-581: the label "all" of the language box
LanguageAllClicked(s) == [s EXCEPT !.language_filter = <<>>]

\* lines 601-606: the button "clear everything"
ClearAllClicked(s) ==
    [s EXCEPT !.query = <<>>, !.platform_filters = <<>>,
              !.region_filter = <<>>, !.language_filter = <<>>]

\* the files of the xmldb directory of the application
UiFiles ==
    <<File(Path(Some(sNES), Some(sXml)), TRUE,
           <<Game(Some(sA), Some(sEU), Some(sEn)), EndEv("game"),
             Game(Some(sB), None, None), TextEv, EndEv("game")>>, FALSE),
      File(Path(Some(sGB), Some(sXml)), TRUE,
           <<Game(Some(sA), Some(sEU), Some(sEn)), CommentEv, EndEv("game")>>, FALSE)>>
FileAt(path) == UiFiles[CHOOSE i \in 1..Len(UiFiles) : UiFiles[i].path = path]
\* load_index over these files (line 271)
UiIndex == BuildIndex(GamesOf([i \in 1..Len(UiFiles) |-> ParseGamesFromFile(UiFiles[i])]))

\* image_loader.rs:109-202 run to its return by the one calling thread: the
\* loader after load_image_async(platform, game name, image type)
LoadImageAsync(s, plat, game_name, image_type) ==
    IF IsSome(CacheGet(s.cache, CacheKey(plat, game_name, image_type))) THEN s
    ELSE IF GetImageUrl(plat, game_name, image_type) = None
         THEN [s EXCEPT !.cache = CacheInsert(@, CacheKey(plat, game_name, image_type),
                                              "NotFound")]
         ELSE [s EXCEPT !.cache = CacheInsert(@, CacheKey(plat, game_name, image_type),
                                              "Loading"),
                        !.fetches = @ \cup
                            {[key |-> CacheKey(plat, game_name, image_type),
                              url |-> Unwrap(GetImageUrl(plat, game_name, image_type)),
                              nth |-> 1]},
                        !.spawned = CacheInsert(@, CacheKey(plat, game_name, image_type), 1)]

\* load_game_images_async (image_loader.rs:205-215)
sTitles == <<"N", "a", "m", "e", "d", "_", "T", "i", "t", "l", "e", "s">>
LoadGameImagesAsync(s, plat, game_name) ==
    LoadImageAsync(LoadImageAsync(LoadImageAsync(s, plat, game_name, sBoxarts),
                                  plat, game_name, sTitles),
                   plat, game_name, sSnaps)

\* results.get(sel)
ResultAt(rs, sel) ==
    IF IsSome(sel) /\ Unwrap(sel) < Len(rs) THEN Some(rs[Unwrap(sel) + 1]) ELSE None

DetailTabs == {"Info", "Xml", "WebSearch"}
sEmptyGame == <<"<", "g", "a", "m", "e", "/", ">">>

\* lines 741-748: the XML tab extracts the fragment of g when none is cached
XmlTab(s, g) ==
    IF s.detail_xml_cache = None
       /\ ExtractGameXmlByIndex(FileAt(g.file_path), g.game_idx).ok
    THEN [s EXCEPT !.detail_xml_cache =
                       Some(ExtractGameXmlByIndex(FileAt(g.file_path), g.game_idx).value),
                   !.xml_of = Some(g)]
    ELSE s

\* lines 627-829: the detail window over the results of this frame; tab is
\* None or the tab label clicked, closed whether the window was closed
DetailWindow(s, rs, tab, closed) ==
    LET g == ResultAt(rs, s.selected_index)
        t == IF IsSome(g) /\ IsSome(tab) THEN [s EXCEPT !.detail_tab = Unwrap(tab)] ELSE s
        u == IF ~IsSome(g) THEN t
             ELSE IF t.detail_tab = "Xml" THEN XmlTab(t, Unwrap(g))
             ELSE IF t.detail_tab = "Info"
                  THEN LoadGameImagesAsync(t, Unwrap(g).platform, Unwrap(g).name)
                  ELSE t
    IN IF ~s.show_detail THEN s
       ELSE [u EXCEPT !.show_detail = ~closed]

\* what the detail window displays in the frame: None, or the entry in its
\* title, the tab, and on the XML tab the text shown and the entry it was
\* extracted for
Displayed(s, u, rs) ==
    LET g == ResultAt(rs, s.selected_index)
    IN IF s.show_detail /\ IsSome(g)
       THEN Some([entry |-> Unwrap(g),
                  tab |-> u.detail_tab,
                  code_txt |-> IF u.detail_tab # "Xml" THEN None
                               ELSE IF IsSome(u.detail_xml_cache) THEN u.detail_xml_cache
                               ELSE Some(sEmptyGame),
                  xml_of |-> IF u.detail_tab = "Xml" THEN u.xml_of ELSE None])
       ELSE None

\* lines 833 and 859-864: the cards shown, and a click on card i
CardLimit == 500
CardCount(rs) == IF Len(rs) > CardLimit THEN CardLimit ELSE Len(rs)
CardClicked(s, i) ==
    [s EXCEPT !.selected_index = Some(i), !.show_detail = TRUE,
              !.detail_xml_cache = None, !.xml_of = None, !.detail_tab = "Info"]

\* the fields of the application after the frame
SetApp(s) ==
    /\ query' = s.query
    /\ platform_filters' = s.platform_filters
    /\ region_filter' = s.region_filter
    /\ language_filter' = s.language_filter
    /\ recent_platforms' = s.recent_platforms
    /\ recent_regions' = s.recent_regions
    /\ recent_languages' = s.recent_languages
    /\ recent_store' = s.recent_store
    /\ default_vendors' = s.default_vendors
    /\ show_platform_selector' = s.show_platform_selector
    /\ show_preferences' = s.show_preferences
    /\ selected_index' = s.selected_index
    /\ show_detail' = s.show_detail
    /\ detail_xml_cache' = s.detail_xml_cache
    /\ detail_tab' = s.detail_tab
    /\ xml_of' = s.xml_of
    /\ cache' = s.cache
    /\ fetches' = s.fetches
    /\ spawned' = s.spawned

\* the results of the frame for the fields s (lines 610-616)
FrameResults(s) ==
    FilterResults(index, s.query, s.platform_filters, s.region_filter, s.language_filter)

\* one frame of update: s holds the fields after the menu bar and the search
\* panel (lines 338-608); then the results (610-616), the detail window
\* (627-829) and the cards (831-871)
Frame(s, tab, closed, card) ==
    LET rs == FrameResults(s)
        u == DetailWindow(s, rs, tab, closed)
    IN
    /\ frames < MaxFrames
    /\ frames' = frames + 1
    /\ filtered' = Some(rs)
    /\ shown' = Displayed(s, u, rs)
    /\ SetApp(IF IsSome(card) THEN CardClicked(u, Unwrap(card)) ELSE u)
    /\ UNCHANGED <<index, platforms, available_regions, available_languages>>
    /\ UNCHANGED <<threads, img_calls, img_pc, img_req, img_ret, fetch_log>>
    /\ UNCHANGED <<parsevars, loadvars, recentvars>>

\* the frames, by the input of the user in the frame
UiQueries == {<<>>, <<"b">>}
UiRepaint ==
    /\ Frame(App, None, FALSE, None)

UiQueryEdited ==
    /\ \E q \in UiQueries : q # query /\ Frame([App EXCEPT !.query = q], None, FALSE, None)

UiSelectorOpened ==
    /\ ~show_platform_selector
    /\ Frame([App EXCEPT !.show_platform_selector = TRUE], None, FALSE, None)

UiSelectorClosed ==
    /\ show_platform_selector
    /\ Frame([App EXCEPT !.show_platform_selector = FALSE], None, FALSE, None)

UiSelectAll ==
    /\ show_platform_selector
    /\ Frame(SelectAllClicked(App), None, FALSE, None)

UiCommonPlatform ==
    /\ show_platform_selector
    /\ default_vendors # <<>>
    /\ \E i \in 1..Len(CommonPlatforms(App)) :
          Frame(CommonPlatformClicked(App, CommonPlatforms(App)[i]), None, FALSE, None)

UiPlatform ==
    /\ show_platform_selector
    /\ \E i \in 1..Len(platforms) :
          Frame(PlatformClicked(App, platforms[i]), None, FALSE, None)

UiRegion ==
    /\ \E r \in {recent_regions[i] : i \in 1..Len(recent_regions)}
                \cup {available_regions[i] : i \in 1..Len(available_regions)} :
          Frame(RegionChosen(App, r), None, FALSE, None)

UiRegionAll ==
    /\ Frame(RegionAllClicked(App), None, FALSE, None)

UiLanguage ==
    /\ \E l \in {recent_languages[i] : i \in 1..Len(recent_languages)}
                \cup {available_languages[i] : i \in 1..Len(available_languages)} :
          Frame(LanguageChosen(App, l), None, FALSE, None)

UiLanguageAll ==
    /\ Frame(LanguageAllClicked(App), None, FALSE, None)

UiClearAll ==
    /\ Frame(ClearAllClicked(App), None, FALSE, None)

UiPreferencesOpened ==
    /\ ~show_preferences
    /\ Frame([App EXCEPT !.show_preferences = TRUE], None, FALSE, None)

\* lines 874-901: the preferences window, its button "save" and its closing
UiPreferencesSaved ==
    /\ show_preferences
    /\ Frame(PersistRecents(App), None, FALSE, None)

UiPreferencesClosed ==
    /\ show_preferences
    /\ Frame([App EXCEPT !.show_preferences = FALSE], None, FALSE, None)

UiTab ==
    /\ show_detail
    /\ IsSome(ResultAt(FrameResults(App), selected_index))
    /\ \E tab \in DetailTabs : Frame(App, Some(tab), FALSE, None)

UiDetailClosed ==
    /\ show_detail
    /\ Frame(App, None, TRUE, None)

UiCard ==
    /\ \E i \in 0..(CardCount(FrameResults(App)) - 1) : Frame(App, None, FALSE, Some(i))

NextUi ==
    \/ UiRepaint
    \/ UiQueryEdited
    \/ UiSelectorOpened
    \/ UiSelectorClosed
    \/ UiSelectAll
    \/ UiCommonPlatform
    \/ UiPlatform
    \/ UiRegion
    \/ UiRegionAll
    \/ UiLanguage
    \/ UiLanguageAll
    \/ UiClearAll
    \/ UiPreferencesOpened
    \/ UiPreferencesSaved
    \/ UiPreferencesClosed
    \/ UiTab
    \/ UiDetailClosed
    \/ UiCard

\* RetroGameManagerApp::new (lines 267-302) with no preferences file or with
\* one that names a vendor
sN == <<"N">>
InitUi ==
    /\ index = UiIndex.games
    /\ platforms = UiIndex.platforms
    /\ available_regions = UiIndex.regions
    /\ available_languages = UiIndex.languages
    /\ \E v \in {<<>>, sN} : recent_store = [DefaultStore EXCEPT !.default_vendors = v]
    /\ query = <<>>
    /\ platform_filters = recent_store.selected_platforms
    /\ region_filter = <<>>
    /\ language_filter = <<>>
    /\ default_vendors = recent_store.default_vendors
    /\ recent_platforms = recent_store.platforms
    /\ recent_regions = recent_store.regions
    /\ recent_languages = recent_store.languages
    /\ show_platform_selector = FALSE
    /\ show_preferences = FALSE
    /\ selected_index = None
    /\ show_detail = FALSE
    /\ detail_xml_cache = None
    /\ detail_tab = "Info"
    /\ xml_of = None
    /\ shown = None
    /\ frames = 0
    /\ filtered = None
    /\ LoaderNew({"ui"}, {})
    /\ RecentIdle
    /\ RestIdle

SpecUi == InitUi /\ [][NextUi]_vars

\* ============================================================ properties
\* the parser's locals after the first n events of f
StateAt(f, n) ==
    ParseFold(ParserInit, SubSeq(f.events, 1, n), 1, PlatformOf(f.path), f.path)

IsGameTag(e) == e.type \in {"Start", "Empty"} /\ e.tag = "game"

\* the position of the </game> at which the entry with index k is pushed
EntryEnd(f, k) ==
    CHOOSE p \in 1..Len(f.events) :
        /\ f.events[p].type = "End" /\ f.events[p].tag = "game"
        /\ IsSome(StateAt(f, p - 1).current_game_name)
        /\ StateAt(f, p - 1).game_idx_counter = k

\* the position of the start tag that the end tag after position i closes
RECURSIVE StartOf(_, _, _)
StartOf(events, i, d) ==
    IF events[i].type = "End" THEN StartOf(events, i - 1, d + 1)
    ELSE IF events[i].type = "Start"
         THEN IF d = 0 THEN i ELSE StartOf(events, i - 1, d - 1)
         ELSE StartOf(events, i - 1, d)

EntryStart(f, k) == StartOf(f.events, EntryEnd(f, k) - 1, 0)

\* the events of the <game> element the entry with index k was built from
EntryElement(f, k) == SubSeq(f.events, EntryStart(f, k), EntryEnd(f, k))

\* the positions of the <tag> children inside the element of entry k that
\* carry attribute attr
ChildrenWith(f, k, tag, attr) ==
    {q \in (EntryStart(f, k) + 1)..(EntryEnd(f, k) - 1) :
        /\ f.events[q].type \in {"Start", "Empty"}
        /\ f.events[q].tag = tag
        /\ IsSome(f.events[q][attr])}

\* every entry of every value returned so far satisfies P(entry)
AllEntries(P(_)) ==
    \A i \in 1..Len(returned) :
        returned[i].ok => \A j \in 1..Len(returned[i].value) : P(returned[i].value[j])

\* no <game> element of the stream lies inside another element
NoNestedGame(events) ==
    \A i \in 1..Len(events) :
        IsGameTag(events[i]) =>
            Cardinality({j \in 1..(i - 1) : events[j].type = "Start"})
                = Cardinality({j \in 1..(i - 1) : events[j].type = "End"})

\* C1: for every entry e the parser emits for a file, extracting at
\* e.game_idx returns the <game> element e was built from, whose start tag
\* carries e.name; also when nameless or self-closing <game> elements precede
\* e.  Stated for the files whose <game> elements are all top-level.
C1_ExtractReturnsEntryElement ==
    (IsSome(extracted) /\ NoNestedGame(file.events)) =>
        AllEntries(LAMBDA e :
            Unwrap(extracted).target = e.game_idx =>
                /\ Unwrap(extracted).result = Ok(EntryElement(file, e.game_idx))
                /\ Head(Unwrap(extracted).result.value).name = Some(e.name))

\* C2: the region of every entry is the archive-level region if an <archive>
\* of its own <game> carried one, else the <game> element's own region
\* attribute, else the details-level region, else absent.
C2_RegionPrecedence ==
    AllEntries(LAMBDA e :
        LET k == e.game_idx
            own == file.events[EntryStart(file, k)]
        IN IF ChildrenWith(file, k, "archive", "region") # {}
           THEN \E q \in ChildrenWith(file, k, "archive", "region") :
                    e.region = file.events[q].region
           ELSE IF IsSome(own.region) THEN e.region = own.region
           ELSE IF ChildrenWith(file, k, "details", "region") # {}
           THEN \E q \in ChildrenWith(file, k, "details", "region") :
                    e.region = file.events[q].region
           ELSE e.region = None)

\* C3: the languages of every entry is the archive-level languages if an
\* <archive> of its own <game> carried one, else the <game> element's own
\* languages attribute, else absent; archive_name is the archive-level name
\* if one was captured, else absent.
C3_LanguagesPrecedence ==
    AllEntries(LAMBDA e :
        LET k == e.game_idx
            own == file.events[EntryStart(file, k)]
        IN /\ IF ChildrenWith(file, k, "archive", "languages") # {}
              THEN \E q \in ChildrenWith(file, k, "archive", "languages") :
                       e.languages = file.events[q].languages
              ELSE e.languages = own.languages
           /\ IF ChildrenWith(file, k, "archive", "name") # {}
              THEN \E q \in ChildrenWith(file, k, "archive", "name") :
                       e.archive_name = file.events[q].name
              ELSE e.archive_name = None)

\* C4: the entries of one parse carry game_idx 0, 1, ..., n-1 in order, with
\* no gap and no repeat; a nameless <game> consumes no index.
C4_GameIdxSequence ==
    /\ \A j \in 1..Len(results) : results[j].game_idx = j - 1
    /\ \A i \in 1..Len(returned) :
          returned[i].ok =>
              \A j \in 1..Len(returned[i].value) : returned[i].value[j].game_idx = j - 1

\* a parse has returned an entry with index 0 for a file that starts with a
\* nameless <game> element
C4_Witness ==
    /\ Len(returned) > 0 /\ returned[1].ok /\ Len(returned[1].value) > 0
    /\ returned[1].value[1].game_idx = 0
    /\ Len(file.events) > 0
    /\ file.events[1].type = "Start" /\ file.events[1].tag = "game"
    /\ file.events[1].name = None

\* the number of top-level <game> elements of a stream, and the events of the
\* n-th of them (0-based)
RECURSIVE TopGames(_, _, _)
TopGames(events, i, d) ==
    IF i > Len(events) THEN <<>>
    ELSE LET e == events[i]
         IN IF e.type = "Start"
            THEN (IF d = 0 /\ e.tag = "game" THEN <<i>> ELSE <<>>) \o TopGames(events, i + 1, d + 1)
            ELSE IF e.type = "End" THEN TopGames(events, i + 1, d - 1)
            ELSE (IF d = 0 /\ IsGameTag(e) THEN <<i>> ELSE <<>>) \o TopGames(events, i + 1, d)

\* the position of the end tag that closes the start tag before position i
RECURSIVE EndOf(_, _, _)
EndOf(events, i, d) ==
    IF events[i].type = "Start" THEN EndOf(events, i + 1, d + 1)
    ELSE IF events[i].type = "End"
         THEN IF d = 0 THEN i ELSE EndOf(events, i + 1, d - 1)
         ELSE EndOf(events, i + 1, d)

TopGameElement(events, n) ==
    LET s == TopGames(events, 1, 0)[n + 1]
    IN IF events[s].type = "Empty" THEN <<events[s]>>
       ELSE SubSeq(events, s, EndOf(events, s + 1, 0))

\* C5: for a valid target the extractor returns exactly the events of the
\* target <game> element, from its start tag to its matching end tag (or the
\* single empty-element event), and nothing else.
C5_ExtractExactElement ==
    (/\ IsSome(extracted)
     /\ file.openable /\ ~file.err
     /\ Unwrap(extracted).target < Len(TopGames(file.events, 1, 0)))
    => Unwrap(extracted).result = Ok(TopGameElement(file.events, Unwrap(extracted).target))

\* the number of <game> elements of a stream
GameCount(events) == Cardinality({i \in 1..Len(events) : IsGameTag(events[i])})

\* C6: when target_idx is at least the number of <game> elements of a file
\* that can be opened, the extractor returns Ok with the empty string.
C6_ExtractBeyondEnd ==
    (/\ IsSome(extracted)
     /\ file.openable
     /\ Unwrap(extracted).target >= GameCount(file.events))
    => Unwrap(extracted).result = Ok(<<>>)

\* an extraction beyond the last <game> of a file that has games
C6_Witness ==
    /\ IsSome(extracted)
    /\ file.openable
    /\ GameCount(file.events) > 0
    /\ Unwrap(extracted).target >= GameCount(file.events)
    /\ Unwrap(extracted).result = Ok(<<>>)

\* C7: two parses of the same unchanged file return the same value.
C7_ParseDeterministic ==
    \A i, j \in 1..Len(returned) : returned[i] = returned[j]

\* two parses have returned at least two entries each
C7_Witness ==
    /\ Len(returned) >= 2
    /\ returned[1].ok /\ returned[2].ok
    /\ Len(returned[2].value) >= 2

\* C8: when the reader reports an error or the file cannot be opened, the
\* parse returns an error, which carries none of the entries emitted before.
C8_ParseErrorReturnsErr ==
    (file.err \/ ~file.openable) => \A i \in 1..Len(returned) : returned[i] = Err

\* a parse has returned for a file whose reader failed after an entry was
\* emitted
C8_Witness ==
    /\ file.err
    /\ Len(returned) > 0
    /\ returned[Len(returned)] = Err
    /\ pc = "idle"
    /\ Len(results) > 0

\* a file fails to parse when it cannot be opened or its reader reports an
\* error
Fails(f) == ~f.openable \/ f.err

\* the entries of a file that parses: one per emitting </game>, as the
\* parser's loop collects them
EntriesOfFile(f) ==
    ParseFold(ParserInit, f.events, 1, PlatformOf(f.path), f.path).results

\* the files of the directory that load_index parses
Parsed(d) == {i \in 1..Len(d.entries) : d.entries[i].path.ext = Some(sXml)}

\* C9: whenever the directory exists load_index returns success; the entry
\* list holds every entry of every file that parsed and no entry of a file
\* whose parse failed; when every file fails the list is empty and the status
\* reports zero entries.
C9_LoadToleratesFailure ==
    (IsSome(load_ret) /\ dir.exists) =>
        LET r == Unwrap(load_ret)
            g == r.value.games
        IN /\ r.ok
           /\ \A i \in Parsed(dir) :
                 LET f == dir.entries[i]
                 IN IF Fails(f)
                    THEN \A j \in 1..Len(g) : g[j].file_path # f.path
                    ELSE \A k \in 1..Len(EntriesOfFile(f)) :
                             \E j \in 1..Len(g) : g[j] = EntriesOfFile(f)[k]
           /\ \A j \in 1..Len(g) : \E i \in Parsed(dir) : g[j].file_path = dir.entries[i].path
           /\ (Parsed(dir) # {} /\ \A i \in Parsed(dir) : Fails(dir.entries[i]))
                 => (g = <<>> /\ r.value.status.games = 0)

\* load_index has returned for a directory whose first file failed after an
\* entry was emitted and whose second file parsed with entries
C9_Witness ==
    /\ IsSome(load_ret) /\ dir.exists
    /\ Len(files) = 2
    /\ files[1].err /\ Len(EntriesOfFile(files[1])) > 0
    /\ ~Fails(files[2]) /\ Len(EntriesOfFile(files[2])) > 0
    /\ Len(Unwrap(load_ret).value.games) = Len(EntriesOfFile(files[2]))

\* C10: load_index returns an error, with no entries and no facets, when the
\* root directory does not exist.
C10_MissingDirIsError ==
    (IsSome(load_ret) /\ ~dir.exists) => Unwrap(load_ret) = Err

\* load_index has returned for a missing directory
C10_Witness ==
    /\ ~dir.exists
    /\ lpc = "done"
    /\ load_ret = Some(Err)

\* C11: when the directory exists and no file in it has the extension exactly
\* "xml" (NES.XML and an extension-less file do not count), load_index returns
\* success with no entry, three empty facet lists and the no-XML status.
C11_NoXmlFilesIsEmptySuccess ==
    (/\ IsSome(load_ret)
     /\ dir.exists
     /\ \A i \in 1..Len(dir.entries) : dir.entries[i].path.ext # Some(sXml))
    => /\ Unwrap(load_ret).ok
       /\ Unwrap(load_ret).value.games = <<>>
       /\ Unwrap(load_ret).value.platforms = <<>>
       /\ Unwrap(load_ret).value.regions = <<>>
       /\ Unwrap(load_ret).value.languages = <<>>
       /\ Unwrap(load_ret).value.status = StatusNoXml

\* load_index has returned for a directory whose only file is NES.XML, with a
\* named game in it
C11_Witness ==
    /\ IsSome(load_ret)
    /\ dir.exists
    /\ Len(dir.entries) = 1
    /\ dir.entries[1].path.ext = Some(sXML)
    /\ Len(EntriesOfFile(dir.entries[1])) > 0
    /\ ~Fails(dir.entries[1])
    /\ Unwrap(load_ret).value.games = <<>>

\* the facet list is strictly ascending, holds no empty string and no value
\* with leading or trailing whitespace, and holds exactly the values of want
StrictlyAscending(list) == \A i \in 1..(Len(list) - 1) : StrLess(list[i], list[i + 1])
IsFacetOf(list, want) ==
    /\ StrictlyAscending(list)
    /\ \A i \in 1..Len(list) :
          /\ list[i] # <<>>
          /\ list[i][1] \notin Whitespace
          /\ list[i][Len(list[i])] \notin Whitespace
    /\ {list[i] : i \in 1..Len(list)} = want

\* the comma-separated tokens of str: its maximal comma-free runs
TokensOf(str) ==
    {SubSeq(str, a, b) : <<a, b>> \in
        {ab \in (1..(Len(str) + 1)) \X (0..Len(str)) :
            /\ ab[1] <= ab[2] + 1
            /\ \A i \in ab[1]..ab[2] : str[i] # ","
            /\ ab[1] = 1 \/ str[ab[1] - 1] = ","
            /\ ab[2] = Len(str) \/ str[ab[2] + 1] = ","}}

\* the distinct trimmed non-empty values of each field over the entries
PlatformValues(games) == {Trim(games[i].platform) : i \in 1..Len(games)} \ {<<>>}
RegionValues(games) ==
    {Trim(Unwrap(games[i].region)) : i \in {j \in 1..Len(games) : IsSome(games[j].region)}}
        \ {<<>>}
LanguageValues(games) ==
    UNION {{Trim(t) : t \in TokensOf(Unwrap(games[i].languages))} :
              i \in {j \in 1..Len(games) : IsSome(games[j].languages)}} \ {<<>>}

\* C12: each of the three facet lists returned by load_index is strictly
\* ascending, holds no empty string and no value with leading or trailing
\* whitespace, and holds exactly the distinct trimmed non-empty values of its
\* field over all entries (for languages, of the comma-split tokens).
C12_FacetsSortedDistinctTrimmed ==
    (IsSome(load_ret) /\ Unwrap(load_ret).ok) =>
        LET r == Unwrap(load_ret).value
        IN /\ IsFacetOf(r.platforms, PlatformValues(r.games))
           /\ IsFacetOf(r.regions, RegionValues(r.games))
           /\ IsFacetOf(r.languages, LanguageValues(r.games))

\* ---- filter_results
\* a and b are the same letter up to case
SameLetter(a, b) ==
    \/ a = b
    \/ \E i \in 1..26 : {a, b} = {UpperCase[i], LowerCase[i]}
\* a and b are equal up to letter case
SameCI(a, b) == Len(a) = Len(b) /\ \A i \in 1..Len(a) : SameLetter(a[i], b[i])
\* needle occurs in hay up to letter case
ContainsCI(hay, needle) ==
    \E i \in 0..(Len(hay) - Len(needle)) :
        \A j \in 1..Len(needle) : SameLetter(hay[i + j], needle[j])

\* the four criteria as sections 4.5 states them, on the trimmed filter values
SatText(g, text) ==
    \/ ContainsCI(g.name, Trim(text))
    \/ IsSome(g.archive_name) /\ ContainsCI(Unwrap(g.archive_name), Trim(text))
SatPlatform(g, plats) == \E i \in 1..Len(plats) : g.platform = plats[i]
SatRegion(g, region) == IsSome(g.region) /\ ContainsCI(Unwrap(g.region), Trim(region))
SatLanguage(g, language) ==
    /\ IsSome(g.languages)
    /\ \E t \in TokensOf(Unwrap(g.languages)) : SameCI(Trim(t), Trim(language))
\* g satisfies every criterion that is not empty
Sat(g) ==
    /\ (Trim(query) # <<>> => SatText(g, query))
    /\ (platform_filters # <<>> => SatPlatform(g, platform_filters))
    /\ (Trim(region_filter) # <<>> => SatRegion(g, region_filter))
    /\ (Trim(language_filter) # <<>> => SatLanguage(g, language_filter))
\* the positions of the index that match, and the positions that were returned
\* (game_idx is the position in these indexes)
Matching == {i \in 1..Len(index) : Sat(index[i])}
Returned == {Unwrap(filtered)[j].game_idx + 1 : j \in 1..Len(Unwrap(filtered))}

\* C13: filter_results never returns more than 1000 entries; it returns the
\* first 1000 matching entries in index order when at least 1000 match, and
\* all matching entries in index order when fewer match.
C13_ResultCap ==
    IsSome(filtered) =>
        LET out == Unwrap(filtered)
            n == Len(out)
            m == Cardinality(Matching)
        IN /\ n <= 1000
           /\ n = (IF m >= 1000 THEN 1000 ELSE m)
           /\ \A j \in 1..n : /\ Sat(out[j])
                              /\ out[j] = index[out[j].game_idx + 1]
           /\ \A j \in 1..(n - 1) : out[j].game_idx < out[j + 1].game_idx
           /\ n > 0 => Cardinality({i \in 1..(out[n].game_idx + 1) : Sat(index[i])}) = n

\* more than 1000 entries of a mixed index match and 1000 are returned
C13_Witness ==
    /\ IsSome(filtered)
    /\ Len(index) = 1334
    /\ platform_filters = <<sNES>>
    /\ Len(Unwrap(filtered)) = 1000
    /\ Unwrap(filtered)[1000].game_idx = 1332
    /\ Sat(index[1334])

\* C14: below the cap an entry is returned if and only if it satisfies every
\* criterion that is not empty or blank; with the four criteria empty or blank
\* every entry is returned.
C14_MatchIffAllCriteria ==
    (IsSome(filtered) /\ Cardinality(Matching) < 1000) =>
        /\ Returned = Matching
        /\ \A j \in 1..Len(Unwrap(filtered)) :
              Unwrap(filtered)[j] = index[Unwrap(filtered)[j].game_idx + 1]
        /\ (/\ Trim(query) = <<>> /\ platform_filters = <<>>
            /\ Trim(region_filter) = <<>> /\ Trim(language_filter) = <<>>)
           => Unwrap(filtered) = index

\* the four criteria are set; one entry satisfies them all and is returned,
\* another fails one of them and is not
C14_Witness ==
    /\ IsSome(filtered)
    /\ Trim(query) # <<>> /\ platform_filters # <<>>
    /\ Trim(region_filter) # <<>> /\ Trim(language_filter) # <<>>
    /\ Len(index) = 2
    /\ Len(Unwrap(filtered)) = 1
    /\ \E i \in 1..2 : /\ SatText(index[i], query) /\ SatPlatform(index[i], platform_filters)
                       /\ SatRegion(index[i], region_filter)
                       /\ ~SatLanguage(index[i], language_filter)

\* C15: with a language filter that is not blank, every returned entry has
\* languages, one of whose comma-split tokens equals the filter value after
\* trimming and up to case; the filter "en" alone keeps "en,fr" and "EN, fr"
\* and never keeps "english" or absent languages.
C15_LanguageExactToken ==
    (IsSome(filtered) /\ Trim(language_filter) # <<>>) =>
        /\ \A j \in 1..Len(Unwrap(filtered)) : SatLanguage(Unwrap(filtered)[j], language_filter)
        /\ SameCI(Trim(language_filter), sEn) =>
              LET ret == Returned
              IN \A i \in 1..Len(index) :
                    /\ (/\ index[i].languages \in {Some(sEnCommaFr), Some(sENFr)}
                        /\ Trim(query) = <<>> /\ platform_filters = <<>>
                        /\ Trim(region_filter) = <<>>
                        /\ i <= 1000)
                       => i \in ret
                    /\ index[i].languages \in {Some(sEnglish), None} => i \notin ret

\* the filter " EN" alone, over an index holding "EN, fr" and "english":
\* the first is returned, the second is not
C15_Witness ==
    /\ IsSome(filtered)
    /\ SameCI(Trim(language_filter), sEn)
    /\ Trim(query) = <<>> /\ platform_filters = <<>> /\ Trim(region_filter) = <<>>
    /\ Len(index) = 2
    /\ index[1].languages = Some(sENFr)
    /\ index[2].languages = Some(sEnglish)
    /\ Returned = {1}

\* C16: with a region filter that is not blank, every returned entry has a
\* region, which contains the trimmed filter value up to case; an entry with
\* absent region is never returned.
C16_RegionSubstring ==
    (IsSome(filtered) /\ Trim(region_filter) # <<>>) =>
        /\ \A j \in 1..Len(Unwrap(filtered)) : SatRegion(Unwrap(filtered)[j], region_filter)
        /\ LET ret == Returned
           IN \A i \in 1..Len(index) : index[i].region = None => i \notin ret

\* the region filter " U" over an index holding an entry without region and an
\* entry of region "US": only the second is returned
C16_Witness ==
    /\ IsSome(filtered)
    /\ region_filter = <<" ", "U">>
    /\ Len(index) = 2
    /\ index[1].region = None
    /\ index[2].region = Some(sUS)
    /\ Returned = {2}

\* C17: the platform rule is case-insensitive: with a platform set that is not
\* empty and the other criteria empty, an entry is returned (below the cap) if
\* and only if its platform equals a member of the set up to letter case.
C17_PlatformCaseInsensitive ==
    (/\ IsSome(filtered) /\ platform_filters # <<>>
     /\ Trim(query) = <<>> /\ Trim(region_filter) = <<>> /\ Trim(language_filter) = <<>>
     /\ Len(index) <= 1000)
    => Returned = {i \in 1..Len(index) :
                      \E k \in 1..Len(platform_filters) :
                          SameCI(index[i].platform, platform_filters[k])}

\* ---- platform
\* the stem of the path cut before its first " (", "Unknown" without a stem
ExpectedPlatform(path) ==
    IF path.stem = None THEN sUnknown
    ELSE LET st == Unwrap(path.stem)
         IN IF \E k \in 1..(Len(st) - 1) : st[k] = " " /\ st[k + 1] = "("
            THEN SubSeq(st, 1, (CHOOSE k \in 1..(Len(st) - 1) :
                                   /\ st[k] = " " /\ st[k + 1] = "("
                                   /\ \A k2 \in 1..(k - 1) : ~(st[k2] = " " /\ st[k2 + 1] = "(")) - 1)
            ELSE st

\* C18: the platform a parse infers is the file stem cut before its first
\* " (" (the whole stem without one, "Unknown" without a stem), and every
\* entry of the file carries it.
C18_PlatformFromFilename ==
    /\ (pc = "loop" \/ Len(returned) > 0) => platform = ExpectedPlatform(file.path)
    /\ \A j \in 1..Len(results) : results[j].platform = ExpectedPlatform(file.path)
    /\ AllEntries(LAMBDA e : e.platform = ExpectedPlatform(file.path))

\* a parse has returned two entries for the file "A (B) (U).xml"
C18_Witness ==
    /\ file.path.stem = Some(sTwoParens)
    /\ Len(returned) > 0 /\ returned[1].ok
    /\ Len(returned[1].value) = 2
    /\ returned[1].value[1].platform = sA
    /\ returned[1].value[2].platform = sA

\* ---- holders
\* C19: when the parser has just left a <game> element, named or nameless, the
\* inside-game flag is down and every holder is empty; and an entry whose own
\* <game> element carries no region (no languages) at any level has absent
\* region (languages), whatever an earlier game of the file carried.
C19_HoldersClearedAfterGame ==
    /\ (/\ pc = "loop" /\ pos > 1
        /\ file.events[pos - 1].type = "End" /\ file.events[pos - 1].tag = "game")
       => /\ in_game = FALSE
          /\ current_game_name = None
          /\ current_game_region = None
          /\ current_game_languages = None
          /\ current_archive_region = None
          /\ current_archive_languages = None
          /\ current_archive_name = None
          /\ current_details_region = None
    /\ AllEntries(LAMBDA e :
          LET k == e.game_idx
              own == file.events[EntryStart(file, k)]
          IN /\ (/\ own.region = None
                 /\ ChildrenWith(file, k, "archive", "region") = {}
                 /\ ChildrenWith(file, k, "details", "region") = {})
                => e.region = None
             /\ (/\ own.languages = None
                 /\ ChildrenWith(file, k, "archive", "languages") = {})
                => e.languages = None)

\* ---- entries and elements
\* the positions of the <game> tags (start or self-closing) whose name
\* attribute is present and decodes
NamedGames(events) ==
    {p \in 1..Len(events) :
        /\ IsGameTag(events[p])
        /\ IsSome(events[p].name)
        /\ IsSome(DecodeAndUnescapeValue(Unwrap(events[p].name)))}

\* C20: a parse that succeeds returns exactly one entry per <game> element
\* with a name, in open/close or in self-closing form: as many entries as
\* named <game> elements, each name once.  Stated for the files whose <game>
\* elements are all top-level.
C20_OneEntryPerNamedGame ==
    \A i \in 1..Len(returned) :
        (returned[i].ok /\ NoNestedGame(file.events)) =>
            /\ Len(returned[i].value) = Cardinality(NamedGames(file.events))
            /\ \A p \in NamedGames(file.events) :
                  \E j \in 1..Len(returned[i].value) :
                      /\ Some(returned[i].value[j].name) = file.events[p].name
                      /\ j = Cardinality({p2 \in NamedGames(file.events) : p2 <= p})

\* ---- siblings
\* every <game> start tag of the stream carries a name that decodes, and no
\* <game> element is self-closing or nested: no holder outlives its game
AllGamesNamed(events) ==
    /\ NoNestedGame(events)
    /\ \A p \in 1..Len(events) :
          IsGameTag(events[p]) => (events[p].type = "Start" /\ p \in NamedGames(events))

\* the positions of the <tag> children inside the element of entry k
ChildrenOfTag(f, k, tag) ==
    {q \in (EntryStart(f, k) + 1)..(EntryEnd(f, k) - 1) :
        f.events[q].type \in {"Start", "Empty"} /\ f.events[q].tag = tag}
First(S) == CHOOSE q \in S : \A q2 \in S : q <= q2
Last(S) == CHOOSE q \in S : \A q2 \in S : q2 <= q

\* C21: when neither the game nor any of its archives carries a region, the
\* region of the entry is the region attribute of the first <details> element
\* of the game that carries one; a later <details region="..."> never replaces
\* it.  Stated for the files whose <game> elements are all named.
C21_FirstDetailsWins ==
    AllGamesNamed(file.events) =>
        AllEntries(LAMBDA e :
            LET k == e.game_idx
                own == file.events[EntryStart(file, k)]
            IN (/\ own.region = None
                /\ ChildrenWith(file, k, "archive", "region") = {}
                /\ ChildrenWith(file, k, "details", "region") # {})
               => e.region = file.events[First(ChildrenWith(file, k, "details", "region"))].region)

\* C22: when a game has <archive> elements, the archive-level region,
\* languages and name of its entry are those of the last <archive>: where the
\* last archive lacks an attribute, no value of an earlier archive stands in
\* for it.  Stated for the files whose <game> elements are all named.
C22_LastArchiveWins ==
    AllGamesNamed(file.events) =>
        AllEntries(LAMBDA e :
            LET k == e.game_idx
                own == file.events[EntryStart(file, k)]
                arcs == ChildrenOfTag(file, k, "archive")
                last == file.events[Last(arcs)]
            IN arcs # {} =>
                  /\ e.archive_name = last.name
                  /\ IF IsSome(last.languages) THEN e.languages = last.languages
                     ELSE e.languages = own.languages
                  /\ IF IsSome(last.region) THEN e.region = last.region
                     ELSE IF IsSome(own.region) THEN e.region = own.region
                     ELSE IF ChildrenWith(file, k, "details", "region") # {}
                     THEN \E q \in ChildrenWith(file, k, "details", "region") :
                              e.region = file.events[q].region
                     ELSE e.region = None)

\* ---- extractor: depth and errors
\* as many start tags as end tags
Balanced(frag) ==
    Cardinality({i \in 1..Len(frag) : frag[i].type = "Start"})
        = Cardinality({i \in 1..Len(frag) : frag[i].type = "End"})

\* C23: the extractor counts only the <game> elements at depth 0 and ends the
\* capture at the end tag that matches the target's start tag: for a file read
\* to its end the result is the target-th top-level <game> element, whole and
\* with balanced tags, or the empty string when there are not that many.
C23_ExtractCountsDepthZero ==
    (IsSome(extracted) /\ file.openable /\ ~file.err) =>
        LET r == Unwrap(extracted).result
            t == Unwrap(extracted).target
        IN /\ r.ok
           /\ Balanced(r.value)
           /\ r.value = (IF t < Len(TopGames(file.events, 1, 0))
                         THEN TopGameElement(file.events, t) ELSE <<>>)

\* what a walk that the reader's error ends has captured for target t, in a
\* stream whose <game> elements are all top-level: nothing, the whole target,
\* or the target from its start tag to the last event read
CapturedUpToError(events, t) ==
    LET tg == TopGames(events, 1, 0)
    IN IF t >= Len(tg) THEN <<>>
       ELSE IF events[tg[t + 1]].type = "Empty" THEN <<events[tg[t + 1]]>>
       ELSE IF t + 1 < Len(tg) THEN SubSeq(events, tg[t + 1], tg[t + 2] - 1)
       ELSE SubSeq(events, tg[t + 1], Len(events))

\* C29: the extractor returns an error exactly when the file cannot be opened;
\* when the reader reports an error during the walk, the result is a success
\* that carries what was captured so far: the empty string, the target
\* fragment, or an unterminated prefix of it.
C29_ExtractErrorOnlyOnOpen ==
    IsSome(extracted) =>
        LET r == Unwrap(extracted).result
            t == Unwrap(extracted).target
        IN /\ r.ok <=> file.openable
           /\ ~file.openable => r = Err
           /\ (file.openable /\ file.err /\ NoNestedGame(file.events))
                 => r = Ok(CapturedUpToError(file.events, t))

\* an extraction from a file whose reader fails inside the target: the result
\* is a success holding a fragment that no end tag closes
C29_Witness ==
    /\ IsSome(extracted)
    /\ file.openable /\ file.err
    /\ Unwrap(extracted).result.ok
    /\ Len(Unwrap(extracted).result.value) >= 2
    /\ ~Balanced(Unwrap(extracted).result.value)
    /\ Unwrap(extracted).result.value[1].type = "Start"
    /\ Unwrap(extracted).result.value[1].tag = "game"

\* ---- scheduling of the parse tasks
\* the position in files of the file an entry stems from
FileOf(g) == CHOOSE i \in 1..Len(files) : files[i].path = g.file_path

\* C24: whatever the order in which the parse tasks complete, the entry list
\* of load_index is the concatenation, in the order of files, of the entries
\* of each file that parsed, in ascending game_idx order: the entries of one
\* file are contiguous and none is lost, duplicated or moved.
C24_LoadOrderIndependent ==
    (IsSome(load_ret) /\ Unwrap(load_ret).ok /\ files # <<>>) =>
        LET g == Unwrap(load_ret).value.games
        IN /\ \A j \in 1..Len(g) : \E i \in 1..Len(files) : files[i].path = g[j].file_path
           /\ \A j \in 1..(Len(g) - 1) :
                 \/ FileOf(g[j]) < FileOf(g[j + 1]) /\ g[j + 1].game_idx = 0
                 \/ FileOf(g[j]) = FileOf(g[j + 1]) /\ g[j + 1].game_idx = g[j].game_idx + 1
           /\ Len(g) > 0 => g[1].game_idx = 0
           /\ \A i \in 1..Len(files) :
                 Cardinality({j \in 1..Len(g) : g[j].file_path = files[i].path})
                     = (IF Fails(files[i]) THEN 0 ELSE Len(EntriesOfFile(files[i])))
           /\ \A j \in 1..Len(g) : g[j] = EntriesOfFile(files[FileOf(g[j])])[g[j].game_idx + 1]

\* load_index has returned after the task of the second file completed before
\* the task of the first, both files having entries
C24_Witness ==
    /\ IsSome(load_ret) /\ Unwrap(load_ret).ok
    /\ Len(files) = 2
    /\ finished = <<2, 1>>
    /\ ~Fails(files[1]) /\ Len(EntriesOfFile(files[1])) > 0
    /\ ~Fails(files[2]) /\ Len(EntriesOfFile(files[2])) > 1
    /\ Len(Unwrap(load_ret).value.games)
          = Len(EntriesOfFile(files[1])) + Len(EntriesOfFile(files[2]))

\* ------------------------------------------------------------ thumbnails
ImageStates == {"Loading", "Loaded", "NotFound"}
Settled(key) == key \in DOMAIN cache /\ cache[key] \in {"Loaded", "NotFound"}

\* the calling thread t returns from the branch for a platform without URL
ReturnsNoUrl(t) ==
    img_pc[t] = "url" /\ img_pc'[t] = "idle" /\ UrlOf(Unwrap(img_req[t])) = None

\* C25: every key of the thumbnail cache is Loading, Loaded or NotFound; a key
\* that is Loading eventually is Loaded or NotFound, and the request that
\* returned decides which (only a decoded image gives Loaded); a call for a
\* platform outside the mapping leaves its key NotFound, returns NotFound and
\* spawns no request; a key that is Loaded or NotFound never changes again.
C25_ThumbnailLifecycle ==
    /\ [](\A key \in DOMAIN cache : cache[key] \in ImageStates)
    /\ \A key \in ImageKeys :
          (key \in DOMAIN cache /\ cache[key] = "Loading") ~> Settled(key)
    /\ [](IsSome(fetch_log) =>
             CacheGet(cache, Unwrap(fetch_log).key)
                 = Some(IF Unwrap(fetch_log).outcome = "ok" THEN "Loaded" ELSE "NotFound"))
    /\ [](\A key \in ImageKeys :
             SpawnCount(key) > 0 =>
                 \E r \in ImageRequests : KeyOf(r) = key /\ r.platform \in PlatformMapKeys)
    /\ [][\A t \in threads :
             ReturnsNoUrl(t) =>
                 /\ CacheGet(cache', KeyOf(Unwrap(img_req[t]))) = Some("NotFound")
                 /\ img_ret'[t] = Some("NotFound")
                 /\ spawned' = spawned
                 /\ fetches' = fetches]_vars
    /\ [][\A key \in ImageKeys :
             Settled(key) => key \in DOMAIN cache' /\ cache'[key] = cache[key]]_vars

\* a decoded image, a failed request and an unmapped platform, all settled
C25_Witness ==
    /\ CacheGet(cache, KeyOf(Request(sGameBoy, sA, sBoxarts))) = Some("Loaded")
    /\ CacheGet(cache, KeyOf(Request(sGameBoy, sA, sSnaps))) = Some("NotFound")
    /\ fetch_log = Some([key |-> KeyOf(Request(sGameBoy, sA, sSnaps)),
                         outcome |-> "network_error"])
    /\ CacheGet(cache, KeyOf(Request(sNES, sA, sBoxarts))) = Some("NotFound")
    /\ SpawnCount(KeyOf(Request(sNES, sA, sBoxarts))) = 0
    /\ SpawnCount(KeyOf(Request(sGameBoy, sA, sBoxarts))) = 1
    /\ SpawnCount(KeyOf(Request(sGameBoy, sA, sSnaps))) = 1

\* C27: over all interleavings of load_image_async calls, two calling threads
\* included, at most one background thread is ever spawned for a cache key.
C27_OneFetchPerKey ==
    \A key \in ImageKeys : SpawnCount(key) <= 1

\* ------------------------------------------------------------ add_recent
Reverse(seq) == [i \in 1..Len(seq) |-> seq[Len(seq) + 1 - i]]
\* seq without the repetitions of an earlier element
FirstOccurrences(seq) ==
    LET RECURSIVE Go(_)
        Go(n) == IF n = 0 THEN <<>>
                 ELSE IF \E j \in 1..(n - 1) : seq[j] = seq[n]
                      THEN Go(n - 1)
                      ELSE Append(Go(n - 1), seq[n])
    IN Go(Len(seq))
Occurrences(seq, v) == Cardinality({i \in 1..Len(seq) : seq[i] = v})

\* C30: after add_recent calls on a duplicate-free list of at most 3 elements
\* the list starts with the value added last, which occurs once; it has at
\* most 3 elements without duplicates; and it is ordered most recently added
\* first, the elements never added keeping their order behind the added ones.
C30_RecentListMostRecentFirst ==
    LET mru == FirstOccurrences(Reverse(added.values) \o added.init)
    IN /\ Len(recent) <= RecentLimit
       /\ NoDuplicates(recent)
       /\ recent = SubSeq(mru, 1, IF Len(mru) > RecentLimit THEN RecentLimit ELSE Len(mru))
       /\ added.values # <<>> =>
              /\ recent[1] = added.values[Len(added.values)]
              /\ Occurrences(recent, recent[1]) = 1

\* a full list, then its last value added again, then a value it did not hold
C30_Witness ==
    /\ Len(added.init) = RecentLimit
    /\ Len(added.values) = 2
    /\ added.values[1] = added.init[RecentLimit]
    /\ Occurrences(added.init, added.values[2]) = 0
    /\ recent = <<added.values[2], added.init[RecentLimit], added.init[1]>>

\* ------------------------------------------------------------ the window
\* C26: after every frame the selected platforms, region and language held by
\* the preferences store equal the filter selection in effect.
C26_SelectionAlwaysPersisted ==
    /\ recent_store.selected_platforms = platform_filters
    /\ recent_store.selected_region
           = (IF region_filter = <<>> THEN None ELSE Some(region_filter))
    /\ recent_store.selected_language
           = (IF language_filter = <<>> THEN None ELSE Some(language_filter))

\* C28: when the XML tab of the detail window displays a cached fragment, the
\* fragment was extracted for the entry that the window shows, the one that
\* selected_index designates in the results of the frame.
C28_XmlTabShowsSelectedEntry ==
    (IsSome(shown) /\ Unwrap(shown).tab = "Xml" /\ IsSome(Unwrap(shown).xml_of)) =>
        /\ Unwrap(Unwrap(shown).xml_of).file_path = Unwrap(shown).entry.file_path
        /\ Unwrap(Unwrap(shown).xml_of).game_idx = Unwrap(shown).entry.game_idx
        /\ Unwrap(shown).code_txt
               = Some(ExtractGameXmlByIndex(FileAt(Unwrap(shown).entry.file_path),
                                            Unwrap(shown).entry.game_idx).value)

====
